---- MODULE Spec2Model ----
(***************************************************************************)
(* Model of cctk: the CTFd API client with its read-through cache          *)
(* (src/cctk/ctfd/api.py, models.py) and the deploy engine that discovers, *)
(* diffs and applies challenge changes (src/cctk/commands/shared.py,       *)
(* deploy.py).                                                             *)
(*                                                                         *)
(* One coroutine step of the model runs from the arrival of a response to  *)
(* the next request the coroutine sends: Python code between two awaits is *)
(* not interleaved with other coroutines.                                  *)
(***************************************************************************)
EXTENDS Integers, Sequences, FiniteSets, TLC

\* ------------------------------------------------------------------ bounds
\* longest tag / hint / flag / file list, on the remote side or in a target
MaxLen == 2
\* remote requests answered with an error status during one run
MaxFail == 1
\* calls a caller of the API makes in a row
MaxCalls == 2
\* issues recorded by one validation
MaxIssues == 2
\* include patterns, and exclude patterns, of one FileWalker
MaxInclude == 2
MaxExclude == 1
\* static files of one challenge whose names and contents vary
MaxFiles == 2
\* static files of one challenge with many files
MaxMany == 26

\* ------------------------------------------------------------- value sets
\* Python None
None == [none |-> TRUE]
\* id of an object that was never stored remotely (id: int | None = None)
NoId == 0

\* numeric challenge ids (challenge_id_hash of the selected challenges): a
\* run works on the first two, or on all six
FewIds == {1, 2}
ManyIds == {1, 2, 3, 4, 5, 6}
Kinds == {"challenges", "tags", "hints", "flags", "files"}
ListKinds == {"tags", "hints", "flags"}

Names == {"n1", "n2"}
Categories == {"web", "pwn"}
Points == {100, 200}
States == {"hidden", "visible"}
TagValues == {"Easy", "intro"}
HintContents == {"h1", "h2"}
FlagContents == {"f1", "f2"}
FlagTypes == {"static", "regex"}
FilePairs == {<<"a.txt", "hashA">>, <<"b.txt", "hashB">>, <<"a.txt", "hashB">>}

SeqsUpTo(S, n) == UNION {[1..k -> S] : k \in 0..n}

\* ------------------------------------------------------------ models.py
\* ctfd.models.Challenge as commands/shared.py builds and reads it
Challenge(id, name, description, category, value) ==
    [id |-> id, name |-> name, category |-> category, value |-> value,
     description |-> description, state |-> "hidden", max_attempts |-> 0,
     type |-> "dynamic", connection_info |-> None, next_id |-> None]

Tag(value) == [value |-> value, id |-> NoId]
Hint(content) == [content |-> content, id |-> NoId]
Flag(content) == [content |-> content, id |-> NoId, type |-> "static"]
File(filename, content_label) ==
    [filename |-> filename, content_label |-> content_label, id |-> NoId]

ChallengeTags(id, tags) == [id |-> id, tags |-> tags]
ChallengeHints(id, hints) == [id |-> id, hints |-> hints]
ChallengeFlags(id, flags) == [id |-> id, flags |-> flags]
ChallengeFiles(id, files) == [id |-> id, files |-> files]

\* the list held by a ChallengeTags / Hints / Flags / Files object
Items(kind, obj) ==
    CASE kind = "tags" -> obj.tags
      [] kind = "hints" -> obj.hints
      [] kind = "flags" -> obj.flags
      [] kind = "files" -> obj.files

Collection(kind, id, items) ==
    CASE kind = "tags" -> ChallengeTags(id, items)
      [] kind = "hints" -> ChallengeHints(id, items)
      [] kind = "flags" -> ChallengeFlags(id, items)
      [] kind = "files" -> ChallengeFiles(id, items)

\* the string a tag / hint / flag carries
ValueOf(kind, item) == IF kind = "tags" THEN item.value ELSE item.content

as_str_list(kind, obj) ==
    [i \in 1..Len(Items(kind, obj)) |-> ValueOf(kind, Items(kind, obj)[i])]

\* zip() stops at the shorter list; the lengths are compared first
matches_values_of(kind, self, other) ==
    LET a == Items(kind, self)
        b == Items(kind, other)
    IN IF Len(a) # Len(b) THEN FALSE
       ELSE \A i \in 1..Len(a) :
              /\ (kind = "flags" => a[i].type = b[i].type)
              /\ ValueOf(kind, a[i]) = ValueOf(kind, b[i])

\* update_files._file_attributes
_file_attributes(files) ==
    {<<files.files[i].filename, files.files[i].content_label>> : i \in 1..Len(files.files)}

\* ---------------------------------------------------------------- state
VARIABLES
    remote,    \* the CTFd instance: challenges, their tags/hints/flags/files
    cache,     \* CTFdAPI._cache: one dict per kind, keyed by challenge id
    api,       \* per task: the CTFdAPI method it is inside, and where
    log,       \* per task: requests of its current top-level operation
    nfail,     \* error responses given so far
    client,    \* the caller of the API: calls left, the previous call, and
               \* the remote state at the time of the current call
    deploy,    \* the deploy command: its phase, the local sources, the
               \* DeployTarget, the changes, its child tasks and semaphore
    walker,    \* a FileWalker: its root directory, patterns, _results, _warnings
    local_challenge  \* a LocalChallenge whose static files are loaded: its id, its
               \* static config, its static files and the _static_files cache

vars == <<remote, cache, api, log, nfail, client, deploy, walker, local_challenge>>

\* the challenge ids of the run, and its tasks (one per challenge id)
Ids == DOMAIN remote.tags
Tasks == DOMAIN api
Idle == [fn |-> "idle", kind |-> "", pc |-> "idle", id |-> 0, target |-> None,
         dry |-> FALSE, initial |-> None, kids |-> <<>>, todo |-> {}, idx |-> 0,
         ret |-> None]

\* no FileWalker was constructed
NoWalker == None
\* no LocalChallenge is looked at for its static files
NoLocal == None

\* request events kept in log
Ev(ev, verb, kind, ref) == [ev |-> ev, verb |-> verb, kind |-> kind, ref |-> ref]

\* ------------------------------------------------------- the remote side
\* object ids are never reused: the ids given to the items of one challenge
\* increase, and no two challenges are given the same id, in whatever order
\* their requests arrive
RemoteAppend(r, kind, cid, item) ==
    [r EXCEPT ![kind][cid] = Append(@, [item EXCEPT !.id = r.nextId[kind][cid]]),
              !.nextId[kind][cid] = @ + Cardinality(DOMAIN r.nextId[kind])]

RemoteHas(r, kind, oid) ==
    \E c \in Ids : \E i \in 1..Len(r[kind][c]) : r[kind][c][i].id = oid

RemoteRemove(r, kind, oid) ==
    [r EXCEPT ![kind] = [c \in Ids |-> SelectSeq(r[kind][c], LAMBDA it : it.id # oid)]]

\* what GET /challenges/{id}/{kind} answers
RemoteList(r, kind, cid) == Collection(kind, cid, r[kind][cid])

\* -------------------------------------------------- CTFdAPI (ctfd/api.py)
\* A method works on s = [fr |-> its frame, c |-> the cache, lg |-> its log]
\* and yields the same record at its next await (or at its return).
Ret(fr, v) == [fr EXCEPT !.pc = "done", !.ret = v]
\* Raise, if the exception were dropped and the method returned None
Raise_dropped(fr) == [fr EXCEPT !.pc = "done", !.ret = None]

Raise(fr) == [fr EXCEPT !.pc = "raised"]

\* dict.pop(id, None)
pop(c, kind, id) == [c EXCEPT ![kind] = [k \in (DOMAIN @) \ {id} |-> @[k]]]
\* dict[id] = v
store(c, kind, id, v) ==
    [c EXCEPT ![kind] = [k \in (DOMAIN @) \cup {id} |-> IF k = id THEN v ELSE @[k]]]

Send(s, pc, verb, kind, ref) ==
    [s EXCEPT !.fr.pc = pc, !.lg = Append(@, Ev("issue", verb, kind, ref))]

\* update_challenge_cont, if the target were sent with the state it came with
update_challenge_cont_as_given(s, initial_chal) ==
    LET challenge == s.fr.target
    IN IF challenge = initial_chal THEN [s EXCEPT !.fr = Ret(@, FALSE)]
       ELSE IF s.fr.dry THEN [s EXCEPT !.fr = Ret(@, TRUE)]
       ELSE Send([s EXCEPT !.fr.target = challenge, !.fr.initial = initial_chal,
                           !.c = pop(@, "challenges", challenge.id)],
                 "write", "PATCH", "challenges", challenge.id)

\* update_challenge after initial_chal is known (lines 146-162)
update_challenge_cont(s, initial_chal) ==
    LET challenge == IF initial_chal # None
                     THEN [s.fr.target EXCEPT !.state = initial_chal.state]
                     ELSE s.fr.target
    IN IF challenge = initial_chal THEN [s EXCEPT !.fr = Ret(@, FALSE)]
       ELSE IF s.fr.dry THEN [s EXCEPT !.fr = Ret(@, TRUE)]
       ELSE Send([s EXCEPT !.fr.target = challenge, !.fr.initial = initial_chal,
                           !.c = pop(@, "challenges", challenge.id)],
                 "write", "PATCH", "challenges", challenge.id)

\* the serial creation loop of update_tags / update_hints / update_flags:
\* sends the create of target item idx, or returns True after the last one
create_next(s, idx) ==
    IF idx > Len(Items(s.fr.kind, s.fr.target)) THEN [s EXCEPT !.fr = Ret(@, TRUE)]
    ELSE Send([s EXCEPT !.fr.idx = idx], "creating", "POST", s.fr.kind, idx)

\* update_list_cont, if the target were added to what exists
update_list_cont_append(s, initial) ==
    IF matches_values_of(s.fr.kind, s.fr.target, initial) THEN [s EXCEPT !.fr = Ret(@, FALSE)]
    ELSE IF s.fr.dry THEN [s EXCEPT !.fr = Ret(@, TRUE)]
    ELSE create_next([s EXCEPT !.fr.initial = initial,
                               !.c = pop(@, s.fr.kind, s.fr.target.id)], 1)

\* update_tags / update_hints / update_flags after the initial list is known
update_list_cont(s, initial) ==
    IF matches_values_of(s.fr.kind, s.fr.target, initial) THEN [s EXCEPT !.fr = Ret(@, FALSE)]
    ELSE IF s.fr.dry THEN [s EXCEPT !.fr = Ret(@, TRUE)]
    ELSE LET n == Len(Items(s.fr.kind, initial))
             s2 == [s EXCEPT !.fr.initial = initial,
                             !.c = pop(@, s.fr.kind, s.fr.target.id)]
         IN IF n > 0
            THEN [s2 EXCEPT !.fr.pc = "deleting", !.fr.kids = [k \in 1..n |-> "new"]]
            ELSE create_next(s2, 1)

\* leaves the removal loop for the upload loop, and the upload loop for the
\* return, when nothing is left to iterate over
files_advance(s) ==
    LET uploads == _file_attributes(s.fr.target) \ _file_attributes(s.fr.initial)
    IN IF s.fr.pc = "removing" /\ s.fr.todo = {}
       THEN IF uploads = {} THEN [s EXCEPT !.fr = Ret(@, TRUE)]
            ELSE [s EXCEPT !.fr.pc = "uploading", !.fr.todo = uploads]
       ELSE IF s.fr.pc = "uploading" /\ s.fr.todo = {}
       THEN [s EXCEPT !.fr = Ret(@, TRUE)]
       ELSE s

\* update_files after the initial files are known (lines 466-475); the two
\* loops run in files_send / files_response
update_files_cont(s, initial_files) ==
    IF _file_attributes(initial_files) = _file_attributes(s.fr.target)
    THEN [s EXCEPT !.fr = Ret(@, FALSE)]
    ELSE IF s.fr.dry THEN [s EXCEPT !.fr = Ret(@, TRUE)]
    ELSE files_advance(
           [s EXCEPT !.fr.initial = initial_files,
                     !.fr.pc = "removing",
                     !.fr.todo = _file_attributes(initial_files) \ _file_attributes(s.fr.target),
                     !.c = pop(@, "flags", s.fr.target.id)])

\* what the method does with the value its get_* call returned
after_get(s, v) ==
    CASE s.fr.fn = "get" -> [s EXCEPT !.fr = Ret(@, v)]
      [] s.fr.fn = "update_challenge" -> update_challenge_cont(s, v)
      [] s.fr.fn = "update_list" -> update_list_cont(s, v)
      [] s.fr.fn = "update_files" -> update_files_cont(s, v)

\* get_challenge / get_tags / get_hints / get_flags / get_files up to the
\* request: a cached entry is returned without a request
get_enter(s, kind, id) ==
    IF id \in DOMAIN s.c[kind] THEN after_get(s, s.c[kind][id])
    ELSE Send(s, "get", "GET", kind, id)

\* a frame for a fresh call
Frame(fn, kind, id, target, dry) ==
    [Idle EXCEPT !.fn = fn, !.kind = kind, !.id = id, !.target = target, !.dry = dry]

State(t) == [fr |-> api[t], c |-> cache, lg |-> log[t]]
Fresh(fr) == [fr |-> fr, c |-> cache, lg |-> <<>>]

\* s becomes the state of task t
Becomes(t, s) ==
    /\ api' = [api EXCEPT ![t] = s.fr]
    /\ cache' = s.c
    /\ log' = [log EXCEPT ![t] = s.lg]

Logged(s, ev, verb, kind, ref) == [s EXCEPT !.lg = Append(@, Ev(ev, verb, kind, ref))]

\* ---- calls (the part of each method before its first await)
get(t, kind, id) ==
    Becomes(t, get_enter(Fresh(Frame("get", kind, id, None, FALSE)), kind, id))

create_challenge(t, challenge) ==
    LET s == Fresh(Frame("create_challenge", "challenges", challenge.id, challenge, FALSE))
    IN Becomes(t, Send([s EXCEPT !.c = pop(@, "challenges", challenge.id)],
                       "write", "POST", "challenges", challenge.id))

delete_challenge(t, challenge_id) ==
    LET s == Fresh(Frame("delete_challenge", "challenges", challenge_id, None, FALSE))
    IN Becomes(t, Send([s EXCEPT !.c = pop(@, "challenges", challenge_id)],
                       "write", "DELETE", "challenges", challenge_id))

update_challenge(t, challenge, dry_run) ==
    Becomes(t, get_enter(Fresh(Frame("update_challenge", "challenges", challenge.id,
                                     challenge, dry_run)),
                         "challenges", challenge.id))

update_list(t, kind, target, dry_run) ==
    Becomes(t, get_enter(Fresh(Frame("update_list", kind, target.id, target, dry_run)),
                         kind, target.id))

update_tags(t, target_tags, dry_run) == update_list(t, "tags", target_tags, dry_run)
update_hints(t, target_hints, dry_run) == update_list(t, "hints", target_hints, dry_run)
update_flags(t, target_flags, dry_run) == update_list(t, "flags", target_flags, dry_run)

update_files(t, target_files, dry_run) ==
    Becomes(t, get_enter(Fresh(Frame("update_files", "files", target_files.id,
                                     target_files, dry_run)),
                         "files", target_files.id))

\* ---- responses (each runs the method on to its next await or its return)
exists(r, id) == id \in DOMAIN r.challenges

\* not_found, if "does not exist" were cached like any other result
not_found_cached(s) ==
    after_get([s EXCEPT !.c = store(@, "challenges", s.fr.id, None)], None)

\* get_challenge lines 77-79: a 404 returns None, before the cache is written
not_found(s) == after_get(s, None)

\* found, if the result were returned without being cached
found_uncached(s, kind, id, structured) == after_get(s, structured)

\* lines 89-94 (196-200, ...): "cache + return"
found(s, kind, id, structured) ==
    after_get([s EXCEPT !.c = store(@, kind, id, structured)], structured)

\* the answer to the GET sent by get_challenge / get_tags / ... (lines 75-94,
\* 185-200): an error status raises, a 404 of get_challenge returns None
\* without caching, data is cached and returned to the calling method
get_response(t) ==
    /\ api[t].pc = "get"
    /\ LET kind == api[t].kind
           id == api[t].id
           s == State(t)
       IN \/ /\ \/ nfail < MaxFail /\ nfail' = nfail + 1
                \/ kind # "challenges" /\ ~exists(remote, id) /\ nfail' = nfail
             /\ Becomes(t, Logged([s EXCEPT !.fr = Raise(@)], "fail", "GET", kind, id))
          \/ /\ kind = "challenges" /\ ~exists(remote, id)
             /\ Becomes(t, not_found(Logged(s, "ok", "GET", kind, id)))
             /\ nfail' = nfail
          \/ /\ exists(remote, id)
             /\ LET structured == IF kind = "challenges" THEN remote.challenges[id]
                                  ELSE RemoteList(remote, kind, id)
                IN Becomes(t, found(Logged(s, "ok", "GET", kind, id), kind, id, structured))
             /\ nfail' = nfail
    /\ UNCHANGED <<remote, client, deploy, walker, local_challenge>>

\* the answer to POST / PATCH / DELETE of a base challenge (lines 109-113,
\* 126-128, 162-168)
write_response(t) ==
    /\ api[t].pc = "write"
    /\ LET fn == api[t].fn
           id == api[t].id
           verb == CASE fn = "create_challenge" -> "POST"
                     [] fn = "update_challenge" -> "PATCH"
                     [] fn = "delete_challenge" -> "DELETE"
           s == State(t)
       IN \/ /\ \/ nfail < MaxFail /\ nfail' = nfail + 1
                \/ (fn = "create_challenge") = exists(remote, id) /\ nfail' = nfail
             /\ Becomes(t, Logged([s EXCEPT !.fr = Raise(@)], "fail", verb, "challenges", id))
             /\ remote' = remote
          \/ /\ (fn = "create_challenge") # exists(remote, id)
             /\ nfail' = nfail
             /\ Becomes(t, Logged([s EXCEPT !.fr = Ret(@, IF fn = "update_challenge"
                                                          THEN TRUE ELSE None)],
                                  "ok", verb, "challenges", id))
             /\ remote' =
                  IF fn = "delete_challenge"
                  THEN [remote EXCEPT
                          !.challenges = [k \in (DOMAIN @) \ {id} |-> @[k]],
                          !.tags[id] = <<>>, !.hints[id] = <<>>,
                          !.flags[id] = <<>>, !.files[id] = <<>>]
                  ELSE [remote EXCEPT
                          !.challenges = [k \in (DOMAIN @) \cup {id} |->
                                            IF k = id THEN api[t].target ELSE @[k]]]
    /\ UNCHANGED <<client, deploy, walker, local_challenge>>

\* ---- the task group of deletions (lines 235-238, 311-314, 387-390)
\* group_done, if the block were left as soon as one child has ended
group_done_first(kids) == \E j \in DOMAIN kids : kids[j] = "ok"

\* the `async with` block is left when every child has ended
group_done(kids) == \A j \in DOMAIN kids : kids[j] = "ok"

\* a started child sends its DELETE
delete_send(t, k) ==
    /\ api[t].pc = "deleting"
    /\ k \in DOMAIN api[t].kids
    /\ api[t].kids[k] = "new"
    /\ api' = [api EXCEPT ![t].kids[k] = "sent"]
    /\ log' = [log EXCEPT ![t] = Append(@, Ev("issue", "DELETE", api[t].kind,
                                              Items(api[t].kind, api[t].initial)[k].id))]
    /\ UNCHANGED <<remote, cache, nfail, client, deploy, walker, local_challenge>>

\* a child's DELETE is answered.  The group ends when every child has ended;
\* then the creation loop starts.  A child that raises makes the task group
\* cancel its siblings: one not yet sent is never sent, one in flight is
\* abandoned and the server may or may not have carried it out.
delete_response(t, k) ==
    /\ api[t].pc = "deleting"
    /\ k \in DOMAIN api[t].kids
    /\ api[t].kids[k] = "sent"
    /\ LET kind == api[t].kind
           kids == api[t].kids
           oid(j) == Items(kind, api[t].initial)[j].id
           s == State(t)
       IN \/ /\ RemoteHas(remote, kind, oid(k))
             /\ nfail' = nfail
             /\ remote' = RemoteRemove(remote, kind, oid(k))
             /\ LET s2 == Logged([s EXCEPT !.fr.kids[k] = "ok"], "ok", "DELETE", kind, oid(k))
                IN IF group_done(s2.fr.kids)
                   THEN Becomes(t, create_next(s2, 1))
                   ELSE Becomes(t, s2)
          \/ /\ \/ nfail < MaxFail /\ nfail' = nfail + 1
                \/ ~RemoteHas(remote, kind, oid(k)) /\ nfail' = nfail
             /\ \E done \in SUBSET {j \in DOMAIN kids : j # k /\ kids[j] = "sent"} :
                  /\ remote' = [remote EXCEPT ![kind] =
                        [c \in Ids |-> SelectSeq(remote[kind][c],
                             LAMBDA it : \A j \in done : it.id # oid(j))]]
                  /\ Becomes(t, Logged(
                        [s EXCEPT !.fr = Raise(@),
                                  !.fr.kids = [j \in DOMAIN kids |->
                                      IF j = k THEN "failed"
                                      ELSE IF kids[j] = "ok" THEN "ok" ELSE "cancelled"]],
                        "fail", "DELETE", kind, oid(k)))
    /\ UNCHANGED <<client, deploy, walker, local_challenge>>

\* the answer to the POST of one tag / hint / flag (lines 240-244): the
\* server stores the item after the existing ones; the next one is sent
create_response(t) ==
    /\ api[t].pc = "creating"
    /\ LET kind == api[t].kind
           id == api[t].id
           idx == api[t].idx
           s == State(t)
       IN \/ /\ \/ nfail < MaxFail /\ nfail' = nfail + 1
                \/ ~exists(remote, id) /\ nfail' = nfail
             /\ remote' = remote
             /\ Becomes(t, Logged([s EXCEPT !.fr = Raise(@)], "fail", "POST", kind, idx))
          \/ /\ exists(remote, id)
             /\ nfail' = nfail
             /\ remote' = RemoteAppend(remote, kind, id, Items(kind, api[t].target)[idx])
             /\ Becomes(t, create_next(Logged(s, "ok", "POST", kind, idx), idx + 1))
    /\ UNCHANGED <<client, deploy, walker, local_challenge>>

\* ---- the two loops of update_files (lines 477-503)
\* index of the first file of the list with these attributes (loop with break)
FirstWith(files, file_attrs) ==
    CHOOSE i \in 1..Len(files) :
        /\ <<files[i].filename, files[i].content_label>> = file_attrs
        /\ \A j \in 1..(i - 1) : <<files[j].filename, files[j].content_label>> # file_attrs

\* index of the last file of the list with these attributes (loop without break)
LastWith(files, file_attrs) ==
    CHOOSE i \in 1..Len(files) :
        /\ <<files[i].filename, files[i].content_label>> = file_attrs
        /\ \A j \in (i + 1)..Len(files) : <<files[j].filename, files[j].content_label>> # file_attrs

\* the next iteration of a loop: a set is iterated in no particular order
files_send(t) ==
    /\ api[t].pc \in {"removing", "uploading"}
    /\ \E file_attrs \in api[t].todo :
         LET removing == api[t].pc = "removing"
             ref == IF removing
                    THEN api[t].initial.files[FirstWith(api[t].initial.files, file_attrs)].id
                    ELSE LastWith(api[t].target.files, file_attrs)
         IN /\ api' = [api EXCEPT ![t].pc = IF removing THEN "fdelete" ELSE "fupload",
                                  ![t].todo = @ \ {file_attrs},
                                  ![t].idx = ref]
            /\ log' = [log EXCEPT ![t] = Append(@, Ev("issue", IF removing THEN "DELETE" ELSE "POST",
                                                      "files", ref))]
    /\ UNCHANGED <<remote, cache, nfail, client, deploy, walker, local_challenge>>

files_response(t) ==
    /\ api[t].pc \in {"fdelete", "fupload"}
    /\ LET removing == api[t].pc = "fdelete"
           verb == IF removing THEN "DELETE" ELSE "POST"
           ref == api[t].idx
           id == api[t].id
           accepted == IF removing THEN RemoteHas(remote, "files", ref) ELSE exists(remote, id)
           s == State(t)
       IN \/ /\ \/ nfail < MaxFail /\ nfail' = nfail + 1
                \/ ~accepted /\ nfail' = nfail
             /\ remote' = remote
             /\ Becomes(t, Logged([s EXCEPT !.fr = Raise(@)], "fail", verb, "files", ref))
          \/ /\ accepted
             /\ nfail' = nfail
             /\ remote' = IF removing THEN RemoteRemove(remote, "files", ref)
                          ELSE RemoteAppend(remote, "files", id, api[t].target.files[ref])
             /\ Becomes(t, files_advance(Logged([s EXCEPT !.fr.pc = IF removing THEN "removing"
                                                                    ELSE "uploading"],
                                                "ok", verb, "files", ref)))
    /\ UNCHANGED <<client, deploy, walker, local_challenge>>

\* ------------------------------------------------ initial remote states
\* A profile is what the CTFd instance holds for one challenge id: None, or
\* the base challenge with the values of its tags, hints, flags and files.
Profile(chal, tags, hints, flags, files) ==
    [chal |-> chal, tags |-> tags, hints |-> hints, flags |-> flags, files |-> files]

RemoteChallenge(id, name, value, state, max_attempts) ==
    [Challenge(id, name, "d1", "web", value) EXCEPT !.state = state,
                                                    !.max_attempts = max_attempts]

\* object ids of the items present at the start
Oid(cid, i) == (cid - 1) * MaxLen + i
FirstFreeOid(ids) == Cardinality(ids) * MaxLen + 1

MkRemote(p) ==
    LET on == {c \in DOMAIN p : p[c] # None}
        list(c, kind) == IF c \in on THEN p[c][kind] ELSE <<>>
    IN [challenges |-> [c \in on |-> p[c].chal],
        tags |-> [c \in DOMAIN p |-> [i \in 1..Len(list(c, "tags")) |->
                    [value |-> list(c, "tags")[i], id |-> Oid(c, i)]]],
        hints |-> [c \in DOMAIN p |-> [i \in 1..Len(list(c, "hints")) |->
                    [content |-> list(c, "hints")[i], id |-> Oid(c, i)]]],
        flags |-> [c \in DOMAIN p |-> [i \in 1..Len(list(c, "flags")) |->
                    [content |-> list(c, "flags")[i][1], id |-> Oid(c, i),
                     type |-> list(c, "flags")[i][2]]]],
        files |-> [c \in DOMAIN p |-> [i \in 1..Len(list(c, "files")) |->
                    [filename |-> list(c, "files")[i][1],
                     content_label |-> list(c, "files")[i][2], id |-> Oid(c, i)]]],
        nextId |-> [k \in Kinds |-> [c \in DOMAIN p |-> FirstFreeOid(DOMAIN p) + c - 1]]]

\* every list empty or holding one item
NarrowProfiles(id) ==
    {None}
    \cup {Profile(RemoteChallenge(id, "n1", 100, "hidden", 0), <<>>, <<>>, <<>>, <<>>),
          Profile(RemoteChallenge(id, "n2", 100, "visible", 3),
                  <<"Easy">>, <<"h1">>, <<<<"f1", "static">>>>, <<<<"a.txt", "hashA">>>>)}

\* one kind of list of any content up to MaxLen items, the others short
WideProfiles(id) ==
    LET chal == RemoteChallenge(id, "n1", 100, "visible", 3)
    IN {Profile(chal, tags, <<"h1">>, <<>>, <<>>) : tags \in SeqsUpTo(TagValues, MaxLen)}
       \cup {Profile(chal, <<>>, hints, <<>>, <<>>) : hints \in SeqsUpTo(HintContents, MaxLen)}
       \cup {Profile(chal, <<>>, <<>>, flags, <<>>) :
                flags \in SeqsUpTo((FlagContents \X {"static"}) \cup {<<"f1", "regex">>}, MaxLen)}
       \cup {Profile(chal, <<>>, <<>>, <<<<"f1", "static">>>>, files) :
                files \in SeqsUpTo(FilePairs, MaxLen)}

\* ------------------------------------- local sources (sources/challenge.py)
Difficulties == {"easy", "hard"}
\* a description the challenge config does not give (description: str | None)
NoDescription == "None"

\* ChallengeDifficulty.as_tag: value.title()
as_tag(difficulty) ==
    CASE difficulty = "undefined" -> "Undefined"
      [] difficulty = "easy" -> "Easy"
      [] difficulty = "medium" -> "Medium"
      [] difficulty = "hard" -> "Hard"

\* a loaded challenge as commands/shared.py reads it: its config, the units
\* load_static_files makes of its static files (filename and content hash, in
\* the order of the dict), and the _static_files cache
LocalChallenge(name, description, category, points, difficulty, tags, hints, flag, units) ==
    [name |-> name, description |-> description, category |-> category,
     points |-> points, difficulty |-> difficulty, tags |-> tags, hints |-> hints,
     flag |-> flag, units |-> units, _static_files |-> None]

get_tag_list(src_chal) == <<as_tag(src_chal.difficulty)>> \o src_chal.tags

\* the dict that load_static_files caches and returns
StaticFiles(units) == [items |-> units]

\* the challenge object after load_static_files(); the call returns its
\* _static_files
load_static_files(src_chal) ==
    [src_chal EXCEPT !._static_files = IF @ # None THEN @ ELSE StaticFiles(src_chal.units)]

drop_static_files(src_chal) == [src_chal EXCEPT !._static_files = None]

\* ------------------------------- DeployTarget (commands/shared.py 157-313)
\* dict[k] = v
put(d, k, v) == [x \in (DOMAIN d) \cup {k} |-> IF x = k THEN v ELSE d[x]]

\* DeployTarget.__init__
NewTarget == [k \in Kinds |-> <<>>]

\* list != list, if the order of the items did not count
list_ne_unordered(a, b) ==
    {a[i] : i \in 1..Len(a)} # {b[i] : i \in 1..Len(b)}

\* list != list of Python: another length, or another item at some position
list_ne(a, b) ==
    \/ Len(a) # Len(b)
    \/ \E i \in 1..Len(a) : a[i] # b[i]

\* absent_entry, if the files of a missing challenge were compared as well
absent_entry_with_files(src_chal) ==
    [changes |-> {"CREATE_NEW"} \cup (IF src_chal.units # <<>> THEN {"FILES"} ELSE {}),
     src |-> load_static_files(src_chal)]

\* lines 270-272: the entire challenge needs to be created; `continue`
absent_entry(src_chal) == [changes |-> {"CREATE_NEW"}, src |-> src_chal]

\* fileset_ne, if the files were compared as lists, in their order
fileset_ne_ordered(files, static_files) ==
    [i \in 1..Len(files.files) |-> <<files.files[i].filename, files.files[i].content_label>>]
      # static_files.items

\* lines 300-302: the sets of (filename, content hash) differ
fileset_ne(files, static_files) ==
    LET existing_fileset == {<<files.files[i].filename, files.files[i].content_label>> :
                               i \in 1..Len(files.files)}
        target_fileset == {static_files.items[i] : i \in 1..Len(static_files.items)}
    IN existing_fileset # target_fileset

\* lines 274-307: the flags of one existing challenge, and the source
\* challenge after its static files were loaded (and dropped when equal)
existing_entry(tgt, cid, src_chal) ==
    LET tgt_chal == tgt.challenges[cid]
        loaded == load_static_files(src_chal)
        files_differ == fileset_ne(tgt.files[cid], loaded._static_files)
    IN [changes |->
            (IF tgt_chal.name # src_chal.name THEN {"NAME"} ELSE {})
            \cup (IF tgt_chal.description # src_chal.description THEN {"DESCRIPTION"} ELSE {})
            \cup (IF tgt_chal.category # src_chal.category THEN {"CATEGORY"} ELSE {})
            \cup (IF tgt_chal.value # src_chal.points THEN {"POINTS"} ELSE {})
            \cup (IF list_ne(as_str_list("tags", tgt.tags[cid]), get_tag_list(src_chal))
                  THEN {"TAGS"} ELSE {})
            \cup (IF list_ne(as_str_list("hints", tgt.hints[cid]), src_chal.hints)
                  THEN {"HINTS"} ELSE {})
            \cup (IF list_ne(as_str_list("flags", tgt.flags[cid]), <<src_chal.flag>>)
                  THEN {"FLAGS"} ELSE {})
            \cup (IF files_differ THEN {"FILES"} ELSE {}),
        src |-> IF files_differ THEN loaded ELSE drop_static_files(loaded)]

\* kept, if an empty changeset stayed in the map
kept_even_empty(changes) == TRUE

\* lines 309-311: an empty changeset is removed from the map
kept(changes) == changes # {}

\* compare_against_sources: the changes, and the source challenges after the
\* comparison.  Each turn of the loop touches the entries of its own cid only.
compare_against_sources(tgt, challenges) ==
    LET entry == [cid \in DOMAIN tgt.challenges |->
                    IF tgt.challenges[cid] = None THEN absent_entry(challenges[cid])
                    ELSE existing_entry(tgt, cid, challenges[cid])]
    IN [changes |-> [cid \in {c \in DOMAIN entry : kept(entry[c].changes)} |->
                        entry[cid].changes],
        challenges |-> [cid \in DOMAIN challenges |->
                          IF cid \in DOMAIN entry THEN entry[cid].src ELSE challenges[cid]]]

\* ------------------------------------ the deploy command (deploy.py 79-122)
CONCURRENT_READS == 5
CONCURRENT_WRITES == 3

\* ---- validation (validation.py)
\* Severity
FATAL == 50
ERROR == 40
WARNING == 30
NOTICE == 25
Severities == {FATAL, ERROR, WARNING, NOTICE}

\* Issue.challenge_id of an issue of the repository (None in the code)
OfRepo == 0
Issue(severity, challenge_id) == [severity |-> severity, challenge_id |-> challenge_id]

\* ValidationBook.get_issues(None): the issues of every challenge and of the
\* repository, chained
get_issues(book) == {book[i] : i \in 1..Len(book)}

\* what validation has recorded: the issues in the order of their recording,
\* the step the loading is at (OfRepo, then the challenges in turn), the
\* encountered_error flag of the challenge being validated, the challenges
\* stored in DeploySource.challenges and those in _failed_challenges
NoIssues == [book |-> <<>>, at |-> OfRepo, encountered_error |-> FALSE,
             loaded |-> {}, failed |-> {}]

\* the state of the command when no deploy is run
Off == [phase |-> "off", run |-> 0, challenges |-> <<>>, tgt |-> NewTarget,
        changes |-> None, shown |-> FALSE, answer |-> "unasked",
        validation |-> NoIssues,
        task |-> [t \in Tasks |-> "none"], semaphore |-> 0,
        trace |-> [t \in Tasks |-> <<>>]]

\* ------------------------------------------------ a caller of the CTFdAPI
\* The caller is one coroutine that calls the public methods one after the
\* other, each with any argument, and looks at what they return.
Caller == CHOOSE t \in FewIds : \A u \in FewIds : t <= u
CallerIds == {Caller}

\* names within one target are distinct: the target is built from a dict
TargetFiles(n) ==
    {fs \in SeqsUpTo(FilePairs, n) : \A i, j \in 1..Len(fs) : i # j => fs[i][1] # fs[j][1]}

MayCall == api[Caller].fn = "idle" /\ client.left > 0
Called == client' = [client EXCEPT !.left = @ - 1, !.pre = remote]

call_get ==
    /\ MayCall
    /\ \E kind \in Kinds, id \in CallerIds : get(Caller, kind, id)
    /\ Called
    /\ UNCHANGED <<remote, nfail, deploy, walker, local_challenge>>

call_create_challenge ==
    /\ MayCall
    /\ \E id \in CallerIds, name \in Names :
         create_challenge(Caller, Challenge(id, name, "d1", "web", 100))
    /\ Called
    /\ UNCHANGED <<remote, nfail, deploy, walker, local_challenge>>

call_delete_challenge ==
    /\ MayCall
    /\ \E id \in CallerIds : delete_challenge(Caller, id)
    /\ Called
    /\ UNCHANGED <<remote, nfail, deploy, walker, local_challenge>>

call_update_challenge ==
    /\ MayCall
    /\ \E id \in CallerIds, name \in Names, dry_run \in BOOLEAN :
         update_challenge(Caller, Challenge(id, name, "d1", "web", 100), dry_run)
    /\ Called
    /\ UNCHANGED <<remote, nfail, deploy, walker, local_challenge>>

call_update_tags ==
    /\ MayCall
    /\ \E id \in CallerIds, vs \in SeqsUpTo(TagValues, client.maxlen), dry_run \in BOOLEAN :
         update_tags(Caller, ChallengeTags(id, [i \in 1..Len(vs) |-> Tag(vs[i])]), dry_run)
    /\ Called
    /\ UNCHANGED <<remote, nfail, deploy, walker, local_challenge>>

call_update_hints ==
    /\ MayCall
    /\ \E id \in CallerIds, vs \in SeqsUpTo(HintContents, client.maxlen), dry_run \in BOOLEAN :
         update_hints(Caller, ChallengeHints(id, [i \in 1..Len(vs) |-> Hint(vs[i])]), dry_run)
    /\ Called
    /\ UNCHANGED <<remote, nfail, deploy, walker, local_challenge>>

call_update_flags ==
    /\ MayCall
    /\ \E id \in CallerIds, vs \in SeqsUpTo(FlagContents, client.maxlen), dry_run \in BOOLEAN :
         update_flags(Caller, ChallengeFlags(id, [i \in 1..Len(vs) |-> Flag(vs[i])]), dry_run)
    /\ Called
    /\ UNCHANGED <<remote, nfail, deploy, walker, local_challenge>>

call_update_files ==
    /\ MayCall
    /\ \E id \in CallerIds, fs \in TargetFiles(client.maxlen), dry_run \in BOOLEAN :
         update_files(Caller, ChallengeFiles(id, [i \in 1..Len(fs) |-> File(fs[i][1], fs[i][2])]),
                      dry_run)
    /\ Called
    /\ UNCHANGED <<remote, nfail, deploy, walker, local_challenge>>

\* the number of GET requests a call has sent
Reads(lg) == Cardinality({i \in 1..Len(lg) : lg[i].ev = "issue" /\ lg[i].verb = "GET"})

\* the caller takes the result (or the exception) and remembers the call
call_returns ==
    /\ api[Caller].pc \in {"done", "raised"}
    /\ client' = [client EXCEPT !.prev = [fn |-> api[Caller].fn, kind |-> api[Caller].kind,
                                          id |-> api[Caller].id, pc |-> api[Caller].pc,
                                          ret |-> api[Caller].ret,
                                          reads |-> Reads(log[Caller])]]
    /\ api' = [api EXCEPT ![Caller] = Idle]
    /\ UNCHANGED <<remote, cache, log, nfail, deploy, walker, local_challenge>>

EmptyCache == [k \in Kinds |-> <<>>]

InitCommon ==
    /\ cache = EmptyCache
    /\ api = [t \in FewIds |-> Idle]
    /\ log = [t \in FewIds |-> <<>>]
    /\ nfail = 0

\* any MaxCalls calls in a row on a small CTFd instance
InitApi ==
    /\ InitCommon
    /\ \E p \in [FewIds -> UNION {NarrowProfiles(c) : c \in FewIds}] :
         /\ \A c \in FewIds : p[c] \in NarrowProfiles(c)
         /\ remote = MkRemote(p)
    /\ client = [left |-> MaxCalls, maxlen |-> 1, prev |-> None, pre |-> None]
    /\ walker = NoWalker
    /\ local_challenge = NoLocal
    /\ deploy = Off

\* one call on a CTFd instance that holds one challenge, with lists of up to
\* MaxLen items
InitOp ==
    /\ InitCommon
    /\ \E p \in [FewIds -> UNION {WideProfiles(c) : c \in FewIds} \cup {None}] :
         /\ p[Caller] \in WideProfiles(Caller)
         /\ \A c \in FewIds \ {Caller} : p[c] = None
         /\ remote = MkRemote(p)
    /\ client = [left |-> 1, maxlen |-> MaxLen, prev |-> None, pre |-> None]
    /\ walker = NoWalker
    /\ local_challenge = NoLocal
    /\ deploy = Off

ApiStep ==
    \/ \E t \in Tasks : get_response(t)
    \/ \E t \in Tasks : write_response(t)
    \/ \E t \in Tasks : \E k \in 1..MaxLen : delete_send(t, k)
    \/ \E t \in Tasks : \E k \in 1..MaxLen : delete_response(t, k)
    \/ \E t \in Tasks : create_response(t)
    \/ \E t \in Tasks : files_send(t)
    \/ \E t \in Tasks : files_response(t)

NextApi ==
    \/ call_get
    \/ call_create_challenge
    \/ call_delete_challenge
    \/ call_update_challenge
    \/ call_update_tags
    \/ call_update_hints
    \/ call_update_flags
    \/ call_update_files
    \/ call_returns
    \/ ApiStep

SpecApi == InitApi /\ [][NextApi]_vars
SpecOp == InitOp /\ [][NextApi]_vars

\* ------------------------------------------- the tasks of the deploy command
\* A child task is "new" from start_soon until it holds the semaphore,
\* "running" inside `async with semaphore`, then "done", "failed" (it raised)
\* or "cancelled" (a sibling raised).
Running == {t \in Tasks : deploy.task[t] \in {"new", "running"}}

\* the start and the end of a call, kept in the trace of the task
Marker(ev, kind, id) == Ev(ev, "", kind, id)

\* the call of the task has returned: its requests go to the trace
Returned(d, t) ==
    [d EXCEPT !.trace[t] = @ \o log[t] \o <<Marker("return", api[t].kind, t)>>]

\* acquire, if entering took no permit
acquire_none(d, t) == [d EXCEPT !.task[t] = "running"]

\* the task enters `async with semaphore` (shared.py 178, 209)
acquire(d, t) == [d EXCEPT !.task[t] = "running", !.semaphore = @ - 1]

\* the task leaves `async with semaphore` and ends
Ended(d, t) == [d EXCEPT !.task[t] = "done", !.semaphore = @ + 1]

\* the frame and the log of a task that has ended
Leaves(t) ==
    /\ api' = [api EXCEPT ![t] = Idle]
    /\ log' = [log EXCEPT ![t] = <<>>]
    /\ cache' = cache

\* get_challenge_info lines 182-189: the order of the reads
info_next(kind) ==
    CASE kind = "challenges" -> "tags"
      [] kind = "tags" -> "hints"
      [] kind = "hints" -> "flags"
      [] kind = "flags" -> "files"

\* absent_info, if the four records were left as they are
absent_info_unset(d, t) == d

\* lines 190-194: the challenge does not exist, its four lists are None
absent_info(d, t) ==
    [d EXCEPT !.tgt.tags = put(@, t, None),
              !.tgt.hints = put(@, t, None),
              !.tgt.flags = put(@, t, None),
              !.tgt.files = put(@, t, None)]

\* get_challenge_info up to its first request (lines 171-182)
get_challenge_info_enter(t) ==
    /\ deploy.phase = "discover"
    /\ deploy.task[t] = "new"
    /\ deploy.semaphore > 0
    /\ get(t, "challenges", t)
    /\ deploy' = [acquire(deploy, t) EXCEPT
                     !.trace[t] = <<Marker("call", "challenges", t)>>]
    /\ UNCHANGED <<remote, nfail, client, walker, local_challenge>>

\* get_challenge_info takes what a get_* returned and goes on to the next
\* get_*, or ends (lines 182-197)
get_challenge_info_step(t) ==
    /\ deploy.phase = "discover"
    /\ deploy.task[t] = "running"
    /\ api[t].pc = "done"
    /\ LET kind == api[t].kind
           d1 == [Returned(deploy, t) EXCEPT !.tgt[kind] = put(@, t, api[t].ret)]
       IN IF kind = "challenges" /\ api[t].ret = None
          THEN /\ deploy' = Ended(absent_info(d1, t), t)
               /\ Leaves(t)
          ELSE IF kind = "files"
          THEN /\ deploy' = Ended(d1, t)
               /\ Leaves(t)
          ELSE /\ get(t, info_next(kind), t)
               /\ deploy' = [d1 EXCEPT !.trace[t] = @ \o <<Marker("call", info_next(kind), t)>>]
    /\ UNCHANGED <<remote, nfail, client, walker, local_challenge>>

\* ---- a child task raises (deploy.py 83-87 and 118-122)
\* the requests of a frame that are on their way
InFlight(fr) ==
    CASE fr.pc = "write" ->
           {[verb |-> CASE fr.fn = "create_challenge" -> "POST"
                        [] fr.fn = "update_challenge" -> "PATCH"
                        [] fr.fn = "delete_challenge" -> "DELETE",
             kind |-> "challenges", ref |-> fr.id]}
      [] fr.pc = "deleting" ->
           {[verb |-> "DELETE", kind |-> fr.kind, ref |-> Items(fr.kind, fr.initial)[k].id] :
              k \in {j \in DOMAIN fr.kids : fr.kids[j] = "sent"}}
      [] fr.pc = "creating" -> {[verb |-> "POST", kind |-> fr.kind, ref |-> fr.idx]}
      [] fr.pc = "fdelete" -> {[verb |-> "DELETE", kind |-> "files", ref |-> fr.idx]}
      [] fr.pc = "fupload" -> {[verb |-> "POST", kind |-> "files", ref |-> fr.idx]}
      [] OTHER -> {}

\* the server accepts request q of frame fr
Accepts(r, fr, q) ==
    CASE q.kind = "challenges" -> (q.verb = "POST") # exists(r, fr.id)
      [] q.verb = "DELETE" -> RemoteHas(r, q.kind, q.ref)
      [] OTHER -> exists(r, fr.id)

\* the remote side after request q of frame fr was carried out
Serve(r, fr, q) ==
    CASE q.kind = "challenges" /\ q.verb = "DELETE" ->
           [r EXCEPT !.challenges = [k \in (DOMAIN @) \ {fr.id} |-> @[k]],
                     !.tags[fr.id] = <<>>, !.hints[fr.id] = <<>>,
                     !.flags[fr.id] = <<>>, !.files[fr.id] = <<>>]
      [] q.kind = "challenges" /\ q.verb # "DELETE" ->
           [r EXCEPT !.challenges = put(@, fr.id, fr.target)]
      [] q.kind # "challenges" /\ q.verb = "DELETE" -> RemoteRemove(r, q.kind, q.ref)
      [] OTHER -> RemoteAppend(r, q.kind, fr.id, Items(q.kind, fr.target)[q.ref])

\* the remote side after the requests S (pairs of task and request) were
\* carried out, those the server rejects left aside
RECURSIVE ServeAll(_, _)
ServeAll(r, S) ==
    IF S = {} THEN r
    ELSE LET x == CHOOSE y \in S : TRUE
             fr == api[x[1]]
         IN ServeAll(IF Accepts(r, fr, x[2]) THEN Serve(r, fr, x[2]) ELSE r, S \ {x})

\* An exception leaves a child: the child releases the semaphore, the task
\* group cancels the other children and the exception leaves deploy().  A
\* request of a cancelled child that is on its way may still be carried out.
task_failed(t) ==
    /\ deploy.phase \in {"discover", "apply"}
    /\ deploy.task[t] = "running"
    /\ api[t].pc = "raised"
    /\ LET others == Running \ {t}
           held == {u \in others : deploy.task[u] = "running"}
           flying == UNION {{<<u, q>> : q \in InFlight(api[u])} : u \in held}
       IN /\ \E served \in SUBSET flying : remote' = ServeAll(remote, served)
          /\ api' = [u \in Tasks |-> IF u \in held THEN [api[u] EXCEPT !.pc = "cancelled"]
                                     ELSE api[u]]
          /\ deploy' = [deploy EXCEPT
                          !.phase = IF @ = "discover" THEN "discover_failed" ELSE "apply_failed",
                          !.semaphore = @ + 1 + Cardinality(held),
                          !.task = [u \in Tasks |-> IF u = t THEN "failed"
                                                    ELSE IF u \in others THEN "cancelled"
                                                    ELSE @[u]]]
    /\ UNCHANGED <<cache, log, nfail, client, walker, local_challenge>>

\* after_compare, if the command went on to the prompt whatever the changes
after_compare_to_prompt(changes) == "confirm"

\* lines 105-107: `if len(changes) == 0: return`
after_compare(changes) == IF DOMAIN changes = {} THEN "unchanged" ELSE "confirm"

\* ---- deploy(): from the end of discovery to the prompt (lines 83-107)
\* every child of the discovery has ended: the changes are computed and
\* shown; the command returns when there are none
deploy_compare ==
    /\ deploy.phase = "discover"
    /\ \A t \in Tasks : deploy.task[t] \in {"none", "done"}
    /\ LET r == compare_against_sources(deploy.tgt, deploy.challenges)
       IN deploy' = [deploy EXCEPT !.changes = r.changes,
                                   !.challenges = r.challenges,
                                   !.shown = TRUE,
                                   !.phase = after_compare(r.changes)]
    /\ UNCHANGED <<remote, cache, api, log, nfail, client, walker, local_challenge>>

\* start_apply, if the semaphore of the discovery were kept
start_apply_reads(d) ==
    [d EXCEPT !.phase = "apply",
              !.semaphore = CONCURRENT_READS,
              !.task = [t \in Tasks |-> IF t \in DOMAIN d.changes THEN "new" ELSE "none"],
              !.trace = [t \in Tasks |-> <<>>]]

\* the apply phase starts (lines 113-120): one child per entry of the changes
start_apply(d) ==
    [d EXCEPT !.phase = "apply",
              !.semaphore = CONCURRENT_WRITES,
              !.task = [t \in Tasks |-> IF t \in DOMAIN d.changes THEN "new" ELSE "none"],
              !.trace = [t \in Tasks |-> <<>>]]

\* asked, if the changes were applied whatever the answer
asked_in_vain(d, answer) ==
    start_apply([d EXCEPT !.answer = IF answer THEN "yes" ELSE "no"])

\* lines 109-111: `if not Confirm.ask(...): return`
asked(d, answer) ==
    IF answer THEN start_apply([d EXCEPT !.answer = "yes"])
    ELSE [d EXCEPT !.answer = "no", !.phase = "declined"]

\* Confirm.ask (lines 109-120)
deploy_confirm ==
    /\ deploy.phase = "confirm"
    /\ \E answer \in BOOLEAN : deploy' = asked(deploy, answer)
    /\ UNCHANGED <<remote, cache, api, log, nfail, client, walker, local_challenge>>

\* ---- apply_changes_to_challenge (shared.py 199-251)
\* apply_next, if the hints were updated before the tags
apply_next_hints_first(kind) ==
    CASE kind = "challenges" -> "hints"
      [] kind = "hints" -> "tags"
      [] kind = "tags" -> "flags"
      [] kind = "flags" -> "files"

\* lines 221-247: base challenge, tags, hints, flags, files
apply_next(kind) ==
    CASE kind = "challenges" -> "tags"
      [] kind = "tags" -> "hints"
      [] kind = "hints" -> "flags"
      [] kind = "flags" -> "files"

\* the update_* call of one step (lines 232, 236, 240, 244-247)
apply_call(t, kind, src_chal) ==
    CASE kind = "tags" ->
           update_tags(t, ChallengeTags(t, [i \in 1..Len(get_tag_list(src_chal)) |->
                                              Tag(get_tag_list(src_chal)[i])]), FALSE)
      [] kind = "hints" ->
           update_hints(t, ChallengeHints(t, [i \in 1..Len(src_chal.hints) |->
                                                Hint(src_chal.hints[i])]), FALSE)
      [] kind = "flags" ->
           update_flags(t, ChallengeFlags(t, <<Flag(src_chal.flag)>>), FALSE)
      [] kind = "files" ->
           LET items == load_static_files(src_chal)._static_files.items
           IN update_files(t, ChallengeFiles(t, [i \in 1..Len(items) |->
                                                   File(items[i][1], items[i][2])]), FALSE)

\* base_call, if every challenge were updated in place
base_call_update_only(t, changes, intended_chal) ==
    update_challenge(t, intended_chal, FALSE)

\* lines 221-228: create the challenge, or update the existing one
base_call(t, changes, intended_chal) ==
    IF "CREATE_NEW" \in changes
    THEN create_challenge(t, intended_chal)
    ELSE update_challenge(t, intended_chal, FALSE)

\* up to the first request of create_challenge / update_challenge
apply_changes_to_challenge_enter(t) ==
    /\ deploy.phase = "apply"
    /\ deploy.task[t] = "new"
    /\ deploy.semaphore > 0
    /\ LET src_chal == deploy.challenges[t]
           intended_chal == Challenge(t, src_chal.name, src_chal.description,
                                      src_chal.category, src_chal.points)
       IN base_call(t, deploy.changes[t], intended_chal)
    /\ deploy' = [acquire(deploy, t) EXCEPT
                     !.trace[t] = <<Marker("call", "challenges", t)>>]
    /\ UNCHANGED <<remote, nfail, client, walker, local_challenge>>

\* a step has returned: the next step is called, or the task ends
apply_changes_to_challenge_step(t) ==
    /\ deploy.phase = "apply"
    /\ deploy.task[t] = "running"
    /\ api[t].pc = "done"
    /\ LET kind == api[t].kind
           d1 == Returned(deploy, t)
       IN IF kind = "files"
          THEN /\ deploy' = Ended(d1, t)
               /\ Leaves(t)
          ELSE /\ apply_call(t, apply_next(kind), deploy.challenges[t])
               /\ deploy' = [d1 EXCEPT
                               !.trace[t] = @ \o <<Marker("call", apply_next(kind), t)>>,
                               !.challenges[t] = IF apply_next(kind) = "files"
                                                 THEN load_static_files(@) ELSE @]
    /\ UNCHANGED <<remote, nfail, client, walker, local_challenge>>

\* every child of the apply phase has ended (lines 118-122)
deploy_applied ==
    /\ deploy.phase = "apply"
    /\ \A t \in Tasks : deploy.task[t] \in {"none", "done"}
    /\ deploy' = [deploy EXCEPT !.phase = "done"]
    /\ UNCHANGED <<remote, cache, api, log, nfail, client, walker, local_challenge>>

\* ---- the start of a deploy
\* local challenges: in step with the third narrow profile, and one that
\* differs from it in every field and list
LocalInStep ==
    LocalChallenge("n2", "d1", "web", 100, "easy", <<>>, <<"h1">>, "f1",
                   <<<<"a.txt", "hashA">>>>)
LocalApart ==
    LocalChallenge("n1", NoDescription, "web", 200, "easy", <<"intro">>, <<"h2">>, "f2",
                   <<<<"b.txt", "hashB">>>>)

\* deploy() at the start of the discovery (lines 73-85)
Discover(challenges) ==
    [phase |-> "discover", run |-> 1, challenges |-> challenges, tgt |-> NewTarget,
     changes |-> None, shown |-> FALSE, answer |-> "unasked",
     validation |-> NoIssues,
     task |-> [t \in Tasks |-> IF t \in DOMAIN challenges THEN "new" ELSE "none"],
     semaphore |-> CONCURRENT_READS, trace |-> [t \in Tasks |-> <<>>]]

NoClient == [left |-> 0, maxlen |-> 0, prev |-> None, pre |-> None]

Init ==
    /\ InitCommon
    /\ client = NoClient
    /\ walker = NoWalker
    /\ local_challenge = NoLocal
    /\ \E p \in [FewIds -> UNION {NarrowProfiles(c) : c \in FewIds}] :
         /\ \A c \in FewIds : p[c] \in NarrowProfiles(c)
         /\ remote = MkRemote(p)
    /\ \E sel \in (SUBSET FewIds) \ {{}} :
         \E challenges \in [sel -> {LocalInStep, LocalApart}] :
            /\ \A c \in sel \ {Caller} : challenges[c] = LocalInStep
            /\ deploy = Discover(challenges)

Next ==
    \/ \E t \in Tasks : get_challenge_info_enter(t)
    \/ \E t \in Tasks : get_challenge_info_step(t)
    \/ \E t \in Tasks : task_failed(t)
    \/ deploy_compare
    \/ deploy_confirm
    \/ \E t \in Tasks : apply_changes_to_challenge_enter(t)
    \/ \E t \in Tasks : apply_changes_to_challenge_step(t)
    \/ deploy_applied
    \/ ApiStep

Spec == Init /\ [][Next]_vars

\* ---- the start of a deploy whose discovery and comparison are looked at
\* The remote challenge and the local challenge of the first id vary in one
\* respect at a time: the base fields, the tags, the hints, the flags, the
\* files, or the remote challenge is missing.
DiffCases(id) ==
    LET chal == RemoteChallenge(id, "n1", 100, "visible", 3)
        local(name, description, category, points) ==
            LocalChallenge(name, description, category, points, "easy", <<>>, <<>>, "f1", <<>>)
        flag1 == <<<<"f1", "static">>>>
    IN {<<Profile(c, <<"Easy">>, <<>>, flag1, <<>>), local(n, d, k, v)>> :
            c \in {chal, [chal EXCEPT !.name = "n2"], [chal EXCEPT !.description = ""],
                   [chal EXCEPT !.category = "pwn"], [chal EXCEPT !.value = 200]},
            n \in Names, d \in {"d1", "d2", NoDescription}, k \in Categories, v \in Points}
       \cup {<<Profile(chal, tags, <<>>, flag1, <<>>),
               LocalChallenge("n1", "d1", "web", 100, dif, ts, <<>>, "f1", <<>>)>> :
            tags \in SeqsUpTo(TagValues, MaxLen), dif \in Difficulties,
            ts \in SeqsUpTo(TagValues, MaxLen - 1)}
       \cup {<<Profile(chal, <<"Easy">>, hints, flag1, <<>>),
               LocalChallenge("n1", "d1", "web", 100, "easy", <<>>, hs, "f1", <<>>)>> :
            hints \in SeqsUpTo(HintContents, MaxLen), hs \in SeqsUpTo(HintContents, MaxLen)}
       \cup {<<Profile(chal, <<"Easy">>, <<>>, flags, <<>>),
               LocalChallenge("n1", "d1", "web", 100, "easy", <<>>, <<>>, f, <<>>)>> :
            flags \in SeqsUpTo(FlagContents \X FlagTypes, MaxLen), f \in FlagContents}
       \cup {<<Profile(chal, <<"Easy">>, <<>>, flag1, files),
               LocalChallenge("n1", "d1", "web", 100, "easy", <<>>, <<>>, "f1", units)>> :
            files \in SeqsUpTo(FilePairs, MaxLen), units \in TargetFiles(MaxLen)}
       \cup {<<None, LocalChallenge("n1", "d1", "web", 100, "easy", <<>>, <<>>, "f1", units)>> :
            units \in TargetFiles(MaxLen)}

\* every request of the discovery is answered without an error status
InitDiff ==
    /\ cache = EmptyCache
    /\ api = [t \in FewIds |-> Idle]
    /\ log = [t \in FewIds |-> <<>>]
    /\ nfail = MaxFail
    /\ client = NoClient
    /\ walker = NoWalker
    /\ local_challenge = NoLocal
    /\ \E case \in DiffCases(Caller) :
       \E p \in [FewIds -> UNION {NarrowProfiles(c) : c \in FewIds} \cup {case[1]}] :
       \E sel \in {{Caller}, FewIds} :
         /\ p[Caller] = case[1]
         /\ \A c \in FewIds \ {Caller} : p[c] \in (IF c \in sel THEN NarrowProfiles(c) ELSE {None})
         /\ remote = MkRemote(p)
         /\ deploy = Discover([c \in sel |-> IF c = Caller THEN case[2] ELSE LocalInStep])

NextDiff ==
    \/ \E t \in Tasks : get_challenge_info_enter(t)
    \/ \E t \in Tasks : get_challenge_info_step(t)
    \/ \E t \in Tasks : get_response(t)
    \/ deploy_compare

SpecDiff == InitDiff /\ [][NextDiff]_vars

\* ---- the deploy command run a second time
\* The first run has applied its changes; the command is started again on
\* the same sources: a new process with a new CTFdAPI (empty cache) and
\* newly loaded challenges.
deploy_again ==
    /\ deploy.phase = "done"
    /\ deploy.run = 1
    /\ cache' = EmptyCache
    /\ api' = [t \in Tasks |-> Idle]
    /\ log' = [t \in Tasks |-> <<>>]
    /\ deploy' = [Discover([c \in DOMAIN deploy.challenges |->
                              drop_static_files(deploy.challenges[c])])
                    EXCEPT !.run = 2]
    /\ UNCHANGED <<remote, nfail, client, walker, local_challenge>>

\* every request is answered without an error status; the remote challenge
\* of the first id is any narrow or wide profile
InitTwice ==
    /\ cache = EmptyCache
    /\ api = [t \in FewIds |-> Idle]
    /\ log = [t \in FewIds |-> <<>>]
    /\ nfail = MaxFail
    /\ client = NoClient
    /\ walker = NoWalker
    /\ local_challenge = NoLocal
    /\ \E sel \in {{Caller}, FewIds} :
       \E p \in [FewIds -> UNION {WideProfiles(c) \cup NarrowProfiles(c) : c \in FewIds}] :
       \E challenges \in [sel -> {LocalInStep, LocalApart}] :
         /\ p[Caller] \in WideProfiles(Caller) \cup NarrowProfiles(Caller)
         /\ \A c \in FewIds \ {Caller} : p[c] \in (IF c \in sel THEN NarrowProfiles(c) ELSE {None})
         /\ \A c \in sel \ {Caller} : challenges[c] = LocalInStep
         /\ remote = MkRemote(p)
         /\ deploy = Discover(challenges)

NextTwice ==
    \/ \E t \in Tasks : get_challenge_info_enter(t)
    \/ \E t \in Tasks : get_challenge_info_step(t)
    \/ deploy_compare
    \/ deploy_confirm
    \/ \E t \in Tasks : apply_changes_to_challenge_enter(t)
    \/ \E t \in Tasks : apply_changes_to_challenge_step(t)
    \/ deploy_applied
    \/ deploy_again
    \/ ApiStep

SpecTwice == InitTwice /\ [][NextTwice]_vars

\* ---- a deploy of more challenges than either semaphore admits, every
\* request of which is answered without an error status
\* a new local challenge with the fewest items
LocalNew == LocalChallenge("n1", "d1", "web", 100, "easy", <<>>, <<>>, "f1", <<>>)

\* Six challenges are selected.  The first exists remotely with two tags of
\* which the local challenge keeps one, and without the file of the local
\* challenge; the next three do not exist; the last two exist and are in
\* step with their local challenges.
ManyProfiles ==
    [c \in ManyIds |->
       CASE c = 1 -> Profile(RemoteChallenge(c, "n2", 100, "visible", 0), <<"Easy", "intro">>,
                             <<"h1">>, <<<<"f1", "static">>>>, <<>>)
         [] c \in {2, 3, 4} -> None
         [] OTHER -> Profile(RemoteChallenge(c, "n2", 100, "hidden", 0), <<"Easy">>,
                             <<"h1">>, <<<<"f1", "static">>>>, <<<<"a.txt", "hashA">>>>)]

InitMany ==
    /\ cache = EmptyCache
    /\ api = [t \in ManyIds |-> Idle]
    /\ log = [t \in ManyIds |-> <<>>]
    /\ nfail = MaxFail
    /\ client = NoClient
    /\ walker = NoWalker
    /\ local_challenge = NoLocal
    /\ remote = MkRemote(ManyProfiles)
    /\ deploy = Discover([c \in ManyIds |-> IF c \in {2, 3, 4} THEN LocalNew ELSE LocalInStep])

NextMany ==
    \/ \E t \in Tasks : get_challenge_info_enter(t)
    \/ \E t \in Tasks : get_challenge_info_step(t)
    \/ deploy_compare
    \/ deploy_confirm
    \/ \E t \in Tasks : apply_changes_to_challenge_enter(t)
    \/ \E t \in Tasks : apply_changes_to_challenge_step(t)
    \/ deploy_applied
    \/ ApiStep

SpecMany == InitMany /\ [][NextMany]_vars

\* ---- a deploy of one challenge more than the apply phase admits, whose
\* requests may be answered with an error status
LiveIds == {1, 2, 3, 4}

\* The first challenge exists remotely with a tag the local challenge does
\* not have and without its file; the others exist under another name.
LiveProfiles ==
    [c \in LiveIds |->
       IF c = 1 THEN ManyProfiles[c]
       ELSE Profile(RemoteChallenge(c, "n1", 100, "hidden", 0), <<"Easy">>,
                    <<"h1">>, <<<<"f1", "static">>>>, <<<<"a.txt", "hashA">>>>)]

InitLive ==
    /\ cache = EmptyCache
    /\ api = [t \in LiveIds |-> Idle]
    /\ log = [t \in LiveIds |-> <<>>]
    /\ nfail = 0
    /\ client = NoClient
    /\ walker = NoWalker
    /\ local_challenge = NoLocal
    /\ remote = MkRemote(LiveProfiles)
    /\ deploy = Discover([c \in LiveIds |-> LocalInStep])

\* every request is answered, every task that can run does run, and the
\* prompt is answered
SpecLive == InitLive /\ [][Next]_vars /\ WF_vars(Next)

\* ---- the deploy command from its start: validation, then the deploy
\* the challenge that raised ValidationError, stored all the same
challenge_failed_kept(v) ==
    [v EXCEPT !.loaded = @ \cup {v.at}, !.at = v.at + 1, !.encountered_error = FALSE]

\* shared.py 107-111: LocalChallenge(...) raised ValidationError, nothing is
\* stored in self.challenges, the id joins _failed_challenges and the loop
\* goes on to the next challenge
challenge_failed(v) ==
    [v EXCEPT !.failed = @ \cup {v.at}, !.at = v.at + 1, !.encountered_error = FALSE]

\* ValidationBook.issue (validation.py 103-126) called while the repository
\* or a challenge is loaded.  The issue is recorded first; a FATAL issue then
\* raises FatalValidationError, a subclass of ValidationError.  After an ERROR
\* issue the loader raises ValidationError at once (sources/challenge.py 79,
\* 87, 128; sources/repository.py 34, 42) or sets encountered_error and goes
\* on with its checks (sources/challenge.py 228-268).  An exception of the
\* repository leaves do_validation as SystemExit(1) (shared.py 361-362).
validate_issue ==
    /\ deploy.phase = "validate"
    /\ Len(deploy.validation.book) < MaxIssues
    /\ deploy.validation.at <= Cardinality(DOMAIN deploy.challenges)
    /\ \E severity \in Severities : \E raises \in BOOLEAN :
         /\ severity = FATAL => raises
         /\ severity < ERROR => ~raises
         /\ (deploy.validation.at = OfRepo /\ severity = ERROR) => raises
         /\ LET v == deploy.validation
                booked == [v EXCEPT !.book = Append(@, Issue(severity, v.at))]
            IN deploy' =
                 IF ~raises
                 THEN [deploy EXCEPT !.validation =
                         [booked EXCEPT !.encountered_error = @ \/ severity = ERROR]]
                 ELSE IF v.at = OfRepo
                 THEN [deploy EXCEPT !.validation = booked, !.phase = "exit"]
                 ELSE [deploy EXCEPT !.validation = challenge_failed(booked)]
    /\ UNCHANGED <<remote, cache, api, log, nfail, client, walker, local_challenge>>

\* the loading of the repository, or of a challenge, has come to its end:
\* _validate_config raises ValidationError if it encountered an error
\* (sources/challenge.py 277-278), otherwise the challenge is stored in
\* self.challenges (shared.py 109-110)
validate_next ==
    /\ deploy.phase = "validate"
    /\ deploy.validation.at <= Cardinality(DOMAIN deploy.challenges)
    /\ LET v == deploy.validation
       IN deploy' = [deploy EXCEPT !.validation =
                       IF v.encountered_error THEN challenge_failed(v)
                       ELSE [v EXCEPT !.at = v.at + 1,
                                      !.loaded = IF v.at = OfRepo THEN @ ELSE @ \cup {v.at}]]
    /\ UNCHANGED <<remote, cache, api, log, nfail, client, walker, local_challenge>>

\* has_errors, if only fatal issues stopped the deploy
has_errors_fatal_only(book) == \E issue \in get_issues(book) : issue.severity > ERROR

\* deploy.py 47: any(issue.severity >= Severity.ERROR ...)
has_errors(book) == \E issue \in get_issues(book) : issue.severity >= ERROR

\* do_validation has returned: deploy() exits on errors, or starts the
\* discovery of the challenges that were loaded (deploy.py 44-85)
deploy_start ==
    /\ deploy.phase = "validate"
    /\ deploy.validation.at > Cardinality(DOMAIN deploy.challenges)
    /\ deploy' =
         IF has_errors(deploy.validation.book)
         THEN [deploy EXCEPT !.phase = "exit"]
         ELSE [Discover([c \in deploy.validation.loaded |-> deploy.challenges[c]])
                 EXCEPT !.validation = deploy.validation]
    /\ UNCHANGED <<remote, cache, api, log, nfail, client, walker, local_challenge>>

\* two challenges are to be loaded; the first exists remotely, the second
\* does not; every request is answered without an error status
InitValidate ==
    /\ cache = EmptyCache
    /\ api = [t \in FewIds |-> Idle]
    /\ log = [t \in FewIds |-> <<>>]
    /\ nfail = MaxFail
    /\ client = NoClient
    /\ walker = NoWalker
    /\ local_challenge = NoLocal
    /\ remote = MkRemote([c \in FewIds |-> IF c = Caller THEN ManyProfiles[c] ELSE None])
    /\ deploy = [Discover([c \in FewIds |-> IF c = Caller THEN LocalInStep ELSE LocalNew])
                   EXCEPT !.phase = "validate",
                          !.task = [t \in FewIds |-> "none"]]

NextValidate ==
    \/ validate_issue
    \/ validate_next
    \/ deploy_start
    \/ NextMany

SpecValidate == InitValidate /\ [][NextValidate]_vars

\* ---- two coroutines on one CTFdAPI: a writer and a reader
\* The first task calls one update_* method for the challenge of the first
\* id, the second task calls the get_* method of the same kind for the same
\* id; either may call first, and their requests are answered in any order.
Writer == Caller
Reader == CHOOSE t \in FewIds : t # Caller

\* the kind the other task works on, when it has called
SameKind(kind, other) == api[other].fn = "idle" \/ api[other].kind = kind

writer_calls ==
    /\ api[Writer].fn = "idle"
    /\ \E kind \in Kinds :
         /\ SameKind(kind, Reader)
         /\ CASE kind = "challenges" ->
                   \E name \in Names :
                      update_challenge(Writer, Challenge(Caller, name, "d1", "web", 100), FALSE)
              [] kind = "tags" ->
                   \E vs \in SeqsUpTo(TagValues, 1) :
                      update_tags(Writer, ChallengeTags(Caller, [i \in 1..Len(vs) |-> Tag(vs[i])]), FALSE)
              [] kind = "hints" ->
                   \E vs \in SeqsUpTo(HintContents, 1) :
                      update_hints(Writer, ChallengeHints(Caller, [i \in 1..Len(vs) |-> Hint(vs[i])]), FALSE)
              [] kind = "flags" ->
                   \E vs \in SeqsUpTo(FlagContents, 1) :
                      update_flags(Writer, ChallengeFlags(Caller, [i \in 1..Len(vs) |-> Flag(vs[i])]), FALSE)
              [] kind = "files" ->
                   \E fs \in TargetFiles(1) :
                      update_files(Writer, ChallengeFiles(Caller, [i \in 1..Len(fs) |->
                                                             File(fs[i][1], fs[i][2])]), FALSE)
    /\ UNCHANGED <<remote, nfail, client, deploy, walker, local_challenge>>

reader_calls ==
    /\ api[Reader].fn = "idle"
    /\ \E kind \in Kinds : SameKind(kind, Writer) /\ get(Reader, kind, Caller)
    /\ UNCHANGED <<remote, nfail, client, deploy, walker, local_challenge>>

\* the challenge exists with one item in each list; no request fails
InitRace ==
    /\ cache = EmptyCache
    /\ api = [t \in FewIds |-> Idle]
    /\ log = [t \in FewIds |-> <<>>]
    /\ nfail = MaxFail
    /\ client = NoClient
    /\ walker = NoWalker
    /\ local_challenge = NoLocal
    /\ remote = MkRemote([c \in FewIds |->
                            IF c = Caller
                            THEN Profile(RemoteChallenge(c, "n2", 100, "visible", 0), <<"Easy">>,
                                         <<"h1">>, <<<<"f1", "static">>>>, <<<<"a.txt", "hashA">>>>)
                            ELSE None])
    /\ deploy = Off

NextRace ==
    \/ writer_calls
    \/ reader_calls
    \/ ApiStep

SpecRace == InitRace /\ [][NextRace]_vars

\* ------------------------------------------------ util/filewalker.py
\* A path below the root directory is the sequence of its components, the
\* root itself is <<>>.  A directory tree is a function from the paths that
\* exist to "file" or "dir"; the parent of every path that exists is a
\* directory.
is_dir(root, path) == path \in DOMAIN root /\ root[path] = "dir"
is_file(root, path) == path \in DOMAIN root /\ root[path] = "file"
IsBelow(path, dir) == Len(path) > Len(dir) /\ SubSeq(path, 1, Len(dir)) = dir
iterdir(root, dir) == {path \in DOMAIN root : Len(path) = Len(dir) + 1 /\ IsBelow(path, dir)}

\* pathlib's selectors: the components of path from the i-th on are matched
\* by the components of pattern from the j-th on.  "**" stands for any number
\* of directories, "*" for one entry of any name, every other component for
\* the entry of that name; a component that is not the last one of the
\* pattern selects directories only.
RECURSIVE select_from(_, _, _, _, _)
select_from(root, path, i, pattern, j) ==
    IF j > Len(pattern) THEN i > Len(path)
    ELSE IF pattern[j] = "**"
    THEN \/ /\ is_dir(root, SubSeq(path, 1, i - 1))
            /\ select_from(root, path, i, pattern, j + 1)
         \/ /\ i <= Len(path)
            /\ is_dir(root, SubSeq(path, 1, i))
            /\ select_from(root, path, i + 1, pattern, j)
    ELSE /\ i <= Len(path)
         /\ pattern[j] = "*" \/ pattern[j] = path[i]
         /\ j < Len(pattern) => is_dir(root, SubSeq(path, 1, i))
         /\ select_from(root, path, i + 1, pattern, j + 1)

\* Path.glob(pattern) of the directory dir
glob(root, dir, pattern) ==
    {path \in DOMAIN root :
       /\ path = dir \/ IsBelow(path, dir)
       /\ select_from(root, path, Len(dir) + 1, pattern, 1)}

MatchlessPatternWarning(type, pattern) ==
    [class |-> "MatchlessPatternWarning", type |-> type, pattern |-> pattern]
RedundantPatternWarning(type, pattern) ==
    [class |-> "RedundantPatternWarning", type |-> type, pattern |-> pattern]

\* FileWalker.__init__
FileWalker(root, include_patterns, exclude_patterns) ==
    [root |-> root, include_patterns |-> include_patterns,
     exclude_patterns |-> exclude_patterns, _results |-> None, _warnings |-> <<>>]

\* one include pattern that warns of nothing
include_pattern_silent(root, acc, pattern) ==
    [acc EXCEPT !.results = @ \cup glob(root, <<>>, pattern)]

\* filewalker.py 74-86: one include pattern; acc holds results and warnings
include_pattern(root, acc, pattern) ==
    LET matches == glob(root, <<>>, pattern)
    IN IF Cardinality(matches) = 0
       THEN [acc EXCEPT !.warnings = Append(@, MatchlessPatternWarning("include", pattern))]
       ELSE LET prev_len == Cardinality(acc.results)
                results == acc.results \cup matches
            IN [results |-> results,
                warnings |-> IF prev_len = Cardinality(results)
                             THEN Append(acc.warnings, RedundantPatternWarning("include", pattern))
                             ELSE acc.warnings]

RECURSIVE process_include(_, _, _, _)
process_include(root, include_patterns, k, acc) ==
    IF k > Len(include_patterns) THEN acc
    ELSE process_include(root, include_patterns, k + 1,
                         include_pattern(root, acc, include_patterns[k]))

\* filewalker.py 95-100: the ancestors of literal_path from the root down,
\* beginning with the one of k components; one that is in the results is
\* replaced by its children.  The ancestors above the root are never in the
\* results.
RECURSIVE expand_ancestors(_, _, _, _)
expand_ancestors(root, results, literal_path, k) ==
    IF k >= Len(literal_path) THEN results
    ELSE LET ancestor == SubSeq(literal_path, 1, k)
         IN expand_ancestors(root,
                             IF ancestor \in results
                             THEN (results \ {ancestor}) \cup iterdir(root, ancestor)
                             ELSE results,
                             literal_path, k + 1)

\* one exclude pattern that removes its exact match only
exclude_pattern_exact_only(root, results, pattern) ==
    IF pattern \notin DOMAIN root THEN results ELSE results \ {pattern}

\* filewalker.py 89-105: one exclude pattern, taken as a literal path
exclude_pattern(root, results, pattern) ==
    IF pattern \notin DOMAIN root THEN results
    ELSE expand_ancestors(root, results, pattern, 0) \ {pattern}

RECURSIVE process_exclude(_, _, _, _)
process_exclude(root, exclude_patterns, k, results) ==
    IF k > Len(exclude_patterns) THEN results
    ELSE process_exclude(root, exclude_patterns, k + 1,
                         exclude_pattern(root, results, exclude_patterns[k]))

\* the last loop, if it left the directories in the results
expand_directories_kept(root, results) ==
    results \cup {path \in DOMAIN root :
                    is_file(root, path) /\ \E dir \in results : IsBelow(path, dir)}

\* filewalker.py 107-111: every directory that is left is replaced by the
\* files below it
expand_directories(root, results) ==
    {path \in results : ~is_dir(root, path)}
    \cup UNION {{p \in glob(root, path, <<"**", "*">>) : is_file(root, p)} :
                  path \in {dir \in results : is_dir(root, dir)}}

\* FileWalker.walk_with_warnings, called for the first time
walk_with_warnings ==
    /\ walker # NoWalker
    /\ walker._results = None
    /\ LET root == walker.root
           included == process_include(root, walker.include_patterns, 1,
                                       [results |-> {}, warnings |-> walker._warnings])
           left == process_exclude(root, walker.exclude_patterns, 1, included.results)
       IN walker' = [walker EXCEPT !._results = [paths |-> expand_directories(root, left)],
                                   !._warnings = included.warnings]
    /\ UNCHANGED <<remote, cache, api, log, nfail, client, deploy, local_challenge>>

\* the directories and files a tree may hold below its root
Nodes == {<<"a">>, <<"a", "b">>, <<"a", "b", "c">>, <<"a", "b", "e">>, <<"a", "d">>, <<"f">>}
Parent(path) == SubSeq(path, 1, Len(path) - 1)

\* every tree over Nodes: what has something below it is a directory; of
\* "a", "a/b" and "a/d" each may also be an empty directory, everything else
\* is a file
Trees ==
    {[path \in {<<>>} \cup present |->
        IF path = <<>> \/ (\E p \in present : IsBelow(p, path)) THEN "dir"
        ELSE IF path \in dirs THEN "dir" ELSE "file"] :
       present \in {ps \in SUBSET Nodes : \A p \in ps : Parent(p) = <<>> \/ Parent(p) \in ps},
       dirs \in SUBSET {<<"a">>, <<"a", "b">>, <<"a", "d">>}}

IncludePatterns == {<<"a">>, <<"f">>, <<"a", "b">>, <<"a", "*">>, <<"**", "*">>}
ExcludePatterns == {<<"a", "b">>, <<"a", "b", "c">>, <<"a", "d">>, <<"f">>}

InitWalk ==
    /\ cache = EmptyCache
    /\ api = [t \in FewIds |-> Idle]
    /\ log = [t \in FewIds |-> <<>>]
    /\ nfail = 0
    /\ client = NoClient
    /\ remote = MkRemote([c \in FewIds |-> None])
    /\ deploy = Off
    /\ \E root \in Trees :
       \E include_patterns \in SeqsUpTo(IncludePatterns, MaxInclude) :
       \E exclude_patterns \in SeqsUpTo(ExcludePatterns, MaxExclude) :
          walker = FileWalker(root, include_patterns, exclude_patterns)
    /\ local_challenge = NoLocal

NextWalk == walk_with_warnings

SpecWalk == InitWalk /\ [][NextWalk]_vars

\* ------------------- LocalChallenge.load_static_files (sources/challenge.py)
\* Path.name
Path_name(filepath) == filepath[Len(filepath)]

\* the content of a file, and what hashlib.sha256(...).hexdigest() makes of
\* some content
Bytes(label) == [bytes |-> label]
sha256(data) == [sha256 |-> data]
StaticFileEntry(content_hash, data) == [content_hash |-> content_hash, data |-> data]

\* f"{self.challenge_id}.tar"
archive_name(challenge_id) ==
    CASE challenge_id = "c1" -> "c1.tar"
      [] challenge_id = "c2" -> "c2.tar"

\* the names of the files of a challenge with many files
ManyNames == <<"f01", "f02", "f03", "f04", "f05", "f06", "f07", "f08", "f09", "f10", "f11", "f12", "f13", "f14",
              "f15", "f16", "f17", "f18", "f19", "f20", "f21", "f22", "f23", "f24", "f25", "f26", "f27", "f28">>

\* the order of Path objects: component by component
PathOrder ==
    << <<"src", "a.txt">>, <<"static", "a.txt">>, <<"static", "c1.tar">> >>
    \o [k \in 1..Len(ManyNames) |-> <<"static", ManyNames[k]>>]
    \o << <<"static_notes.txt">> >>

\* sorted(): the paths in their order, one entry for each list that holds
\* the path
RECURSIVE sorted_from(_, _, _)
sorted_from(pattern_paths, static_paths, k) ==
    IF k > Len(PathOrder) THEN <<>>
    ELSE (IF PathOrder[k] \in pattern_paths THEN <<PathOrder[k]>> ELSE <<>>)
         \o (IF PathOrder[k] \in static_paths THEN <<PathOrder[k]>> ELSE <<>>)
         \o sorted_from(pattern_paths, static_paths, k + 1)

\* lines 321-358: the paths the patterns matched and the files os.walk finds
\* below static/, combined into one list that is sorted
_get_all_static_files(src) == sorted_from(src.pattern_paths, src.static_paths, 1)

\* line 384: "cowardly refusing to upload over 25 individual files!"
UPLOAD_CEILING == 25

\* the archive is made whenever the config asks for it
archive_wanted_as_configured(all_static_files, make_archive) == make_archive

\* lines 377-381: an archive is made of more than one file only
archive_wanted(all_static_files, make_archive) ==
    IF Len(all_static_files) > 1 THEN make_archive ELSE FALSE

\* A str is the sequence of its pieces: "static/a.txt" is <<"static", "/",
\* "a.txt">> and "static_notes.txt" is <<"static", "_notes.txt">>.
\* the pieces of one component of a path
pieces(component) ==
    IF component = "static_notes.txt" THEN <<"static", "_notes.txt">> ELSE <<component>>

\* os.fspath of a relative Path: its components, joined by "/"
RECURSIVE fspath(_)
fspath(filepath) ==
    IF Len(filepath) = 1 THEN pieces(filepath[1])
    ELSE pieces(filepath[1]) \o <<"/">> \o fspath(Tail(filepath))

\* len() of a str
RECURSIVE len(_)
len(string) ==
    IF string = <<>> THEN 0
    ELSE len(Tail(string)) +
         CASE Head(string) = "/" -> 1
           [] Head(string) = "static" -> 6
           [] Head(string) = "a.txt" -> 5
           [] Head(string) = "c1.tar" -> 6
           [] Head(string) = "_notes.txt" -> 10
           [] OTHER -> 3

\* str.removeprefix
removeprefix(string, prefix) ==
    IF Len(prefix) <= Len(string) /\ SubSeq(string, 1, Len(prefix)) = prefix
    THEN SubSeq(string, Len(prefix) + 1, Len(string))
    ELSE string

\* TarFile.gettarinfo, called by archive.add (line 417): the member for a
\* file, named by its path, with what os.stat tells of the file
gettarinfo(src, filepath) ==
    [name |-> fspath(filepath), data |-> src.data[filepath],
     mode |-> src.stat.mode, mtime |-> src.stat.mtime,
     uid |-> src.stat.uid, gid |-> src.stat.gid,
     uname |-> src.stat.uname, gname |-> src.stat.gname]

\* lines 406-411: the loop over [*rm_prefixes, "static"], which keeps a
\* candidate that is shorter than the name it has so far
RECURSIVE final_name(_, _, _)
final_name(name, prefixes, so_far) ==
    IF prefixes = <<>> THEN so_far
    ELSE LET candidate_name == removeprefix(removeprefix(name, Head(prefixes)), <<"/">>)
         IN final_name(name, Tail(prefixes),
                       IF len(candidate_name) < len(so_far) THEN candidate_name ELSE so_far)

\* lines 396-414: the filter of archive.add
filter_tarinfo(src, info) ==
    [info EXCEPT !.uid = 0, !.gid = 0, !.uname = "", !.gname = "", !.mtime = 0,
                 !.name = final_name(info.name, src.rm_prefixes \o << <<"static">> >>,
                                     info.name)]

\* the ceiling, if 25 files were too many already
too_many_from_ceiling(all_static_files, make_archive) ==
    ~make_archive /\ Len(all_static_files) >= UPLOAD_CEILING

\* lines 384-385: over 25 individual files are refused
too_many(all_static_files, make_archive) ==
    ~make_archive /\ Len(all_static_files) > UPLOAD_CEILING

\* lines 391-422: the archive of all static files, in their order
archive_buf(src) ==
    [tar |-> [i \in 1..Len(_get_all_static_files(src)) |->
                filter_tarinfo(src, gettarinfo(src, _get_all_static_files(src)[i]))]]

\* lines 387-427: file_contents, a dict of filenames; of two files of one
\* name the later one is kept
file_contents(src) ==
    IF archive_wanted(_get_all_static_files(src), src.make_archive)
    THEN [filename \in {archive_name(src.challenge_id)} |-> archive_buf(src)]
    ELSE LET files == _get_all_static_files(src)
             last(filename) == CHOOSE i \in 1..Len(files) :
                                  /\ Path_name(files[i]) = filename
                                  /\ \A j \in (i + 1)..Len(files) : Path_name(files[j]) # filename
         IN [filename \in {Path_name(files[i]) : i \in 1..Len(files)} |->
               src.data[files[last(filename)]]]

\* lines 430-437: the hashes, packed into the final dict
static_file_entries(src) ==
    [filename \in DOMAIN file_contents(src) |->
       StaticFileEntry(sha256(file_contents(src)[filename]), file_contents(src)[filename])]

\* load_static_files() is called: the cache is returned, or AssertionError
\* is raised before any file is read, or every file is read (into the
\* archive or by itself) and the cache is filled
call_load_static_files ==
    /\ local_challenge # NoLocal
    /\ LET src == local_challenge
           files == _get_all_static_files(src)
       IN local_challenge' =
            IF src._static_files # None THEN [src EXCEPT !.error = ""]
            ELSE IF too_many(files, archive_wanted(files, src.make_archive))
            THEN [src EXCEPT !.error = "AssertionError"]
            ELSE [src EXCEPT !._static_files = StaticFiles(static_file_entries(src)),
                             !.read = @ \cup {files[i] : i \in 1..Len(files)},
                             !.error = ""]
    /\ UNCHANGED <<remote, cache, api, log, nfail, client, deploy, walker>>

\* drop_static_files() is called
call_drop_static_files ==
    /\ local_challenge # NoLocal
    /\ local_challenge._static_files # None
    /\ local_challenge' = [local_challenge EXCEPT !._static_files = None]
    /\ UNCHANGED <<remote, cache, api, log, nfail, client, deploy, walker>>

\* the static files a challenge may have whose contents vary: two have the
\* same name, one has the name of the archive
VariedPaths ==
    {<<"src", "a.txt">>, <<"static", "a.txt">>, <<"static", "c1.tar">>, <<"static_notes.txt">>}
\* the rm_prefixes a config may give: none, "src", "src/" or "static/"
RmPrefixes == {<<>>, << <<"src">> >>, << <<"src", "/">> >>, << <<"static", "/">> >>}
\* the files of a challenge with many files, all below static/
ManyPaths == [k \in 1..Len(ManyNames) |-> <<"static", ManyNames[k]>>]
AllPaths == VariedPaths \cup {ManyPaths[k] : k \in 1..Len(ManyPaths)}
FileBytes == {Bytes("A"), Bytes("B")}
\* what os.stat may tell of the files of a challenge: the time of their
\* modification, their permissions (0o644 or 0o755), their owner and group
Stats ==
    {[mtime |-> mtime, mode |-> mode, uid |-> owner[1], uname |-> owner[2],
      gid |-> owner[1], gname |-> owner[2]] :
       mtime \in {1000, 2000}, mode \in {420, 493}, owner \in {<<0, "root">>, <<1000, "user">>}}

\* a challenge directory and config: the paths its patterns match, the files
\* below its static/ directory, what the files hold
StaticSource(make_archive, rm_prefixes, pattern_paths, static_paths, data, stat) ==
    [challenge_id |-> "c1", make_archive |-> make_archive, rm_prefixes |-> rm_prefixes,
     stat |-> stat,
     pattern_paths |-> pattern_paths, static_paths |-> static_paths,
     data |-> [path \in AllPaths |-> IF path \in DOMAIN data THEN data[path] ELSE Bytes("A")],
     _static_files |-> None, read |-> {}, error |-> ""]

InitStatic ==
    /\ cache = EmptyCache
    /\ api = [t \in FewIds |-> Idle]
    /\ log = [t \in FewIds |-> <<>>]
    /\ nfail = 0
    /\ client = NoClient
    /\ remote = MkRemote([c \in FewIds |-> None])
    /\ deploy = Off
    /\ walker = NoWalker
    /\ \E make_archive \in BOOLEAN :
         \/ \E rm_prefixes \in RmPrefixes :
            \E pattern_paths \in SUBSET VariedPaths :
            \E static_paths \in SUBSET {path \in VariedPaths : path[1] = "static"} :
            \E data \in [{path \in VariedPaths : Path_name(path) = "a.txt"} -> FileBytes] :
            \E stat \in Stats :
               /\ Cardinality(pattern_paths) + Cardinality(static_paths) <= MaxFiles
               /\ local_challenge =
                    StaticSource(make_archive, rm_prefixes, pattern_paths, static_paths,
                                 data, stat)
         \/ \E n \in 0..MaxMany :
               local_challenge =
                 StaticSource(make_archive, <<>>, {}, {ManyPaths[k] : k \in 1..n}, <<>>,
                              CHOOSE stat \in Stats : stat.mtime = 1000 /\ stat.mode = 420
                                                         /\ stat.uid = 0)

NextStatic ==
    \/ call_load_static_files
    \/ call_drop_static_files

SpecStatic == InitStatic /\ [][NextStatic]_vars

\* ================================================================ claims
Issued(lg, verb) == {i \in 1..Len(lg) : lg[i].ev = "issue" /\ lg[i].verb = verb}
Writes(lg) == {i \in 1..Len(lg) : lg[i].ev = "issue" /\ lg[i].verb # "GET"}
PairOf(file) == <<file.filename, file.content_label>>
PairsOf(files) == {PairOf(files[i]) : i \in 1..Len(files)}

\* C1: when a write method (create_challenge, update_challenge, update_tags,
\* update_hints, update_flags, update_files) has sent at least one write for
\* an id and returns, the cache holds no entry of the method's own kind for
\* that id.
C1_WriteDropsOwnEntry ==
    \A t \in Tasks :
        ( /\ api[t].fn \in {"create_challenge", "update_challenge", "update_list", "update_files"}
          /\ api[t].pc = "done"
          /\ Writes(log[t]) # {} )
        => api[t].id \notin DOMAIN cache[api[t].kind]

\* C2: a get on a cached id returns the cached value at once, sends no GET
\* and leaves the cache as it is; a get on an uncached id sends exactly one
\* GET, and when data comes back the data is the entry of that id, so that
\* the same get made next sends no GET and returns the same data.
C2_GetStep ==
    LET t == Caller
        kind == api'[t].kind
        id == api'[t].id
    IN /\ (api[t].fn = "idle" /\ api'[t].fn = "get") =>
              IF id \in DOMAIN cache[kind]
              THEN /\ api'[t].pc = "done"
                   /\ api'[t].ret = cache[kind][id]
                   /\ log'[t] = <<>>
                   /\ cache' = cache
              ELSE /\ api'[t].pc = "get"
                   /\ Reads(log'[t]) = 1
                   /\ cache' = cache
       /\ (api[t].fn = "get" /\ api[t].pc = "get" /\ api'[t].pc = "done") =>
              /\ Reads(log'[t]) = 1
              /\ api'[t].ret # None =>
                    /\ id \in DOMAIN cache'[kind]
                    /\ cache'[kind][id] = api'[t].ret
                    /\ \A k \in Kinds : \A c \in DOMAIN cache[k] :
                          c \in DOMAIN cache'[k] /\ (<<k, c>> # <<kind, id>> => cache'[k][c] = cache[k][c])
       /\ ( /\ client.prev # None
            /\ client.prev.fn = "get" /\ client.prev.pc = "done" /\ client.prev.ret # None
            /\ api[t].fn = "idle" /\ api'[t].fn = "get"
            /\ kind = client.prev.kind /\ id = client.prev.id ) =>
              /\ api'[t].pc = "done"
              /\ api'[t].ret = client.prev.ret
              /\ log'[t] = <<>>

C2_GetContract == [][C2_GetStep]_vars

\* a get answered from the entry that the get before it stored
C2_Witness ==
    /\ client.prev # None
    /\ client.prev.fn = "get" /\ client.prev.reads = 1 /\ client.prev.ret # None
    /\ api[Caller].fn = "get" /\ api[Caller].pc = "done"
    /\ api[Caller].kind = client.prev.kind /\ api[Caller].id = client.prev.id
    /\ api[Caller].ret = client.prev.ret
    /\ log[Caller] = <<>>

\* the get_challenge made right after a get_challenge of the same id that
\* returned None
AfterAbsent(t) ==
    /\ client.prev # None
    /\ client.prev.fn = "get" /\ client.prev.kind = "challenges"
    /\ client.prev.pc = "done" /\ client.prev.ret = None
    /\ api[t].fn = "get" /\ api[t].kind = "challenges" /\ api[t].id = client.prev.id

\* C3 as stated: after get_challenge found the challenge missing, the next
\* get_challenge of that id sends no GET.
C3_AbsentIsCached == AfterAbsent(Caller) => Reads(log[Caller]) = 0

\* C3 as amended: a get_challenge that finds the challenge missing returns None
\* and leaves no entry for the id, and the next get_challenge of that id sends
\* a GET again.
C3_AbsentNotCached ==
    /\ ( /\ api[Caller].fn = "get" /\ api[Caller].kind = "challenges"
         /\ api[Caller].pc = "done" /\ api[Caller].ret = None )
       => /\ Reads(log[Caller]) = 1
          /\ api[Caller].id \notin DOMAIN cache.challenges
    /\ AfterAbsent(Caller) => Reads(log[Caller]) = 1

\* the second get_challenge of a missing challenge has returned None again
C3_Witness ==
    /\ AfterAbsent(Caller)
    /\ api[Caller].pc = "done" /\ api[Caller].ret = None
    /\ Reads(log[Caller]) = 1

\* C5: in one replace-all no create is sent before each pre-existing item's
\* delete has been answered; the creates are sent in the order of the target
\* list, each after the one before it has been answered.
C5_DeletesThenSerialCreates ==
    LET t == Caller
        lg == log[t]
        kind == api[t].kind
    IN api[t].fn = "update_list" =>
         \A j \in Issued(lg, "POST") :
            /\ \A i \in Issued(lg, "DELETE") :
                  i < j /\ \E d \in 1..(j - 1) : lg[d] = Ev("ok", "DELETE", kind, lg[i].ref)
            /\ Cardinality({i \in Issued(lg, "DELETE") : i < j}) = Len(client.pre[kind][api[t].id])
            /\ lg[j].ref = 1 + Cardinality({i \in Issued(lg, "POST") : i < j})
            /\ lg[j].ref > 1 => \E d \in 1..(j - 1) : lg[d] = Ev("ok", "POST", kind, lg[j].ref - 1)

\* two deletes were in flight together, then two creates followed
C5_Witness ==
    LET lg == log[Caller]
    IN /\ api[Caller].fn = "update_list" /\ api[Caller].pc = "done"
       /\ \E i, j \in Issued(lg, "DELETE") :
             /\ i < j
             /\ \A d \in 1..j : lg[d].verb = "DELETE" => lg[d].ev = "issue"
       /\ Cardinality(Issued(lg, "POST")) = 2

\* a replace-all of the caller that went through: it returned True, not dry
Replaced(t, fn) == api[t].fn = fn /\ api[t].pc = "done" /\ api[t].ret = TRUE /\ ~api[t].dry

\* C6: a replace-all that goes through has sent exactly one delete for every
\* pre-existing item and exactly one create for every target item, and the
\* remote values are then the target values in the target's order.
C6_FullReplace ==
    LET t == Caller
        lg == log[t]
        kind == api[t].kind
        id == api[t].id
        pre == client.pre[kind][id]
        target == Items(kind, api[t].target)
    IN Replaced(t, "update_list") =>
         /\ \A k \in 1..Len(pre) :
               Cardinality({i \in Issued(lg, "DELETE") : lg[i].ref = pre[k].id}) = 1
         /\ Cardinality(Issued(lg, "DELETE")) = Len(pre)
         /\ \A m \in 1..Len(target) :
               Cardinality({i \in Issued(lg, "POST") : lg[i].ref = m}) = 1
         /\ Cardinality(Issued(lg, "POST")) = Len(target)
         /\ as_str_list(kind, RemoteList(remote, kind, id)) = as_str_list(kind, api[t].target)

\* existing [] and target ["intro"]: no delete, one create
C6_Witness ==
    /\ Replaced(Caller, "update_list")
    /\ api[Caller].kind = "tags"
    /\ client.pre.tags[api[Caller].id] = <<>>
    /\ as_str_list("tags", api[Caller].target) = <<"intro">>
    /\ Issued(log[Caller], "DELETE") = {}
    /\ Cardinality(Issued(log[Caller], "POST")) = 1
    /\ as_str_list("tags", RemoteList(remote, "tags", api[Caller].id)) = <<"intro">>

\* C7: an update_files that goes through has uploaded exactly the target
\* files whose (filename, content hash) is not among the existing ones and
\* deleted exactly the existing files whose (filename, content hash) is not
\* among the target's, each with one request.
C7_FineGrainedFiles ==
    LET t == Caller
        lg == log[t]
        pre == client.pre.files[api[t].id]
        target == api[t].target.files
    IN Replaced(t, "update_files") =>
         /\ {lg[i].ref : i \in Issued(lg, "POST")}
              = {m \in 1..Len(target) : PairOf(target[m]) \notin PairsOf(pre)}
         /\ {lg[i].ref : i \in Issued(lg, "DELETE")}
              = {pre[k].id : k \in {k \in 1..Len(pre) : PairOf(pre[k]) \notin PairsOf(target)}}
         /\ Cardinality(Issued(lg, "POST")) = Cardinality({lg[i].ref : i \in Issued(lg, "POST")})
         /\ Cardinality(Issued(lg, "DELETE")) = Cardinality({lg[i].ref : i \in Issued(lg, "DELETE")})

\* ---- the apply sequence of one challenge
\* what the task has done in the current phase: its finished calls and the
\* requests of the call it is in
Full(t) == deploy.trace[t] \o log[t]
Rank(kind) ==
    CASE kind = "challenges" -> 1
      [] kind = "tags" -> 2
      [] kind = "hints" -> 3
      [] kind = "flags" -> 4
      [] kind = "files" -> 5
StepOf(rank) == <<"challenges", "tags", "hints", "flags", "files">>[rank]
IsWrite(e) == e.ev = "issue" /\ e.verb \in {"POST", "PATCH", "DELETE"}
IsRequest(e) == e.ev \in {"issue", "ok", "fail"}
Answers(e, q) == e.ev \in {"ok", "fail"} /\ e.verb = q.verb /\ e.kind = q.kind /\ e.ref = q.ref
Applying == deploy.phase \in {"apply", "done", "apply_failed"}

\* C4: in the apply sequence of one challenge every write of a step (base
\* challenge, tags, hints, flags, files) has been answered before a write of
\* a later step is sent; a step is called only when the step before it has
\* returned, and every request is sent inside the call of its own step.
C4_ApplyStepsInOrder ==
    Applying =>
      \A t \in Tasks :
        LET tr == Full(t)
        IN /\ \A i, j \in 1..Len(tr) :
                (IsWrite(tr[i]) /\ IsWrite(tr[j]) /\ Rank(tr[i].kind) < Rank(tr[j].kind)) =>
                    /\ i < j
                    /\ \E d \in (i + 1)..(j - 1) : Answers(tr[d], tr[i])
           /\ \A j \in 1..Len(tr) :
                (tr[j].ev = "call" /\ tr[j].kind # "challenges") =>
                    /\ j > 1
                    /\ tr[j - 1] = Marker("return", StepOf(Rank(tr[j].kind) - 1), t)
           /\ \A j \in 1..Len(tr) :
                IsRequest(tr[j]) =>
                    \E c \in 1..(j - 1) :
                       /\ tr[c] = Marker("call", tr[j].kind, t)
                       /\ \A d \in c..j : tr[d].ev # "return"

\* a challenge went through the five steps and each of them wrote
C4_Witness ==
    /\ deploy.phase = "done"
    /\ \E t \in Tasks :
         /\ deploy.task[t] = "done"
         /\ \A k \in Kinds : \E i \in 1..Len(Full(t)) : IsWrite(Full(t)[i]) /\ Full(t)[i].kind = k
         /\ \E i \in 1..Len(Full(t)) : Full(t)[i] = Ev("issue", "PATCH", "challenges", t)

\* ---- the changes compare_against_sources returns
Compared == deploy.phase \in {"confirm", "unchanged"}
Selected == DOMAIN deploy.challenges
ChangesOf(cid) == IF cid \in DOMAIN deploy.changes THEN deploy.changes[cid] ELSE {}
RemoteValues(kind, cid) ==
    [i \in 1..Len(remote[kind][cid]) |-> ValueOf(kind, remote[kind][cid][i])]
LocalValues(kind, cid) ==
    CASE kind = "tags" -> get_tag_list(deploy.challenges[cid])
      [] kind = "hints" -> deploy.challenges[cid].hints
      [] kind = "flags" -> <<deploy.challenges[cid].flag>>
UnitsOf(cid) ==
    {deploy.challenges[cid].units[i] : i \in 1..Len(deploy.challenges[cid].units)}

\* C8: a selected challenge that is missing remotely gets exactly CREATE_NEW,
\* CREATE_NEW never comes with another flag or for an existing challenge, and
\* nothing of the missing challenge is compared: its static files are not
\* loaded.
C8_AbsentIsCreateNewAlone ==
    Compared =>
      \A cid \in Selected :
        /\ ~exists(remote, cid) =>
              /\ ChangesOf(cid) = {"CREATE_NEW"}
              /\ deploy.challenges[cid]._static_files = None
        /\ "CREATE_NEW" \in ChangesOf(cid) =>
              /\ ChangesOf(cid) = {"CREATE_NEW"}
              /\ ~exists(remote, cid)

\* a missing challenge with local static files, next to an existing one
C8_Witness ==
    /\ Compared
    /\ \E cid \in Selected :
         /\ ~exists(remote, cid)
         /\ deploy.challenges[cid].units # <<>>
         /\ deploy.changes[cid] = {"CREATE_NEW"}
    /\ \E cid \in Selected : exists(remote, cid)

\* local and remote differ in a base field, a value sequence or the file set
Differs(cid) ==
    LET chal == remote.challenges[cid]
        src_chal == deploy.challenges[cid]
    IN \/ chal.name # src_chal.name
       \/ chal.description # src_chal.description
       \/ chal.category # src_chal.category
       \/ chal.value # src_chal.points
       \/ \E kind \in ListKinds : RemoteValues(kind, cid) # LocalValues(kind, cid)
       \/ PairsOf(remote.files[cid]) # UnitsOf(cid)

\* C9: the map of changes has no entry with an empty ChangeSet, and a
\* challenge that exists remotely has an entry exactly when it differs from
\* its local definition in name, description, category, points, tags, hints,
\* flags or files.
C9_NoEmptyEntries ==
    Compared =>
      /\ \A cid \in DOMAIN deploy.changes : deploy.changes[cid] # {}
      /\ \A cid \in Selected :
            exists(remote, cid) => (cid \in DOMAIN deploy.changes <=> Differs(cid))

\* two existing challenges: one equal to its local definition and left out,
\* one that differs and is in the map
C9_Witness ==
    /\ Compared
    /\ \E c1, c2 \in Selected :
         /\ exists(remote, c1) /\ ~Differs(c1) /\ c1 \notin DOMAIN deploy.changes
         /\ exists(remote, c2) /\ Differs(c2) /\ c2 \in DOMAIN deploy.changes

\* the flag of the ChangeSet that stands for a kind of list
FlagOf(kind) ==
    CASE kind = "tags" -> "TAGS"
      [] kind = "hints" -> "HINTS"
      [] kind = "flags" -> "FLAGS"

C11_FilesBySet ==
    Compared =>
      \A cid \in Selected :
        exists(remote, cid) =>
          ("FILES" \in ChangesOf(cid) <=> PairsOf(remote.files[cid]) # UnitsOf(cid))

\* the same two files in the other order: the challenge is left out
C11_Witness ==
    /\ Compared
    /\ \E cid \in Selected :
         /\ exists(remote, cid)
         /\ Len(remote.files[cid]) = 2
         /\ Len(deploy.challenges[cid].units) = 2
         /\ PairOf(remote.files[cid][1]) = deploy.challenges[cid].units[2]
         /\ PairOf(remote.files[cid][2]) = deploy.challenges[cid].units[1]
         /\ PairOf(remote.files[cid][1]) # PairOf(remote.files[cid][2])
         /\ cid \notin DOMAIN deploy.changes

\* C12: when the first run has applied every entry of its changes and the
\* command is run again on the same sources, the comparison of the second
\* run finds no change.
C12_SecondRunFindsNothing ==
    (deploy.run = 2 /\ Compared) => DOMAIN deploy.changes = {}

\* ---- the base challenge in the apply phase
Patched(t) == \E i \in 1..Len(Full(t)) : Full(t)[i] = Ev("ok", "PATCH", "challenges", t)
Both == (DOMAIN remote.challenges) \cap (DOMAIN remote'.challenges)

\* C15: no step changes the state field of a challenge that exists remotely,
\* and every PATCH that update_challenge has sent carries the state the
\* remote challenge has, not the state of the object the caller passed.
C15_StateKept ==
    [][/\ \A cid \in Both : remote'.challenges[cid].state = remote.challenges[cid].state
       /\ \A t \in Tasks :
            (api'[t].fn = "update_challenge" /\ api'[t].pc = "write"
                /\ exists(remote', api'[t].id)) =>
              api'[t].target.state = remote'.challenges[api'[t].id].state]_vars

\* a visible challenge was updated from an intended challenge that is hidden
C15_Witness ==
    /\ Applying
    /\ \E t \in DOMAIN deploy.challenges :
         /\ Patched(t)
         /\ remote.challenges[t].state = "visible"
         /\ remote.challenges[t].name = deploy.challenges[t].name

\* C16: no step changes max_attempts, type, connection_info or next_id of a
\* challenge that exists remotely.
C16_UnmodelledFieldsKept ==
    [][\A cid \in Both :
         /\ remote'.challenges[cid].max_attempts = remote.challenges[cid].max_attempts
         /\ remote'.challenges[cid].type = remote.challenges[cid].type
         /\ remote'.challenges[cid].connection_info = remote.challenges[cid].connection_info
         /\ remote'.challenges[cid].next_id = remote.challenges[cid].next_id]_vars

\* C17: the apply sequence of a challenge whose changes hold CREATE_NEW sends
\* exactly one POST for the base challenge, no PATCH and no DELETE, so that
\* all its writes are POSTs; the apply sequence of any other challenge sends
\* no POST for the base challenge.
C17_CreateNewRequests ==
    Applying =>
      \A t \in DOMAIN deploy.changes :
        LET tr == Full(t)
            posts == {i \in 1..Len(tr) : tr[i] = Ev("issue", "POST", "challenges", t)}
        IN IF "CREATE_NEW" \in deploy.changes[t]
           THEN /\ (tr # <<>>) => Cardinality(posts) = 1
                /\ \A i \in 1..Len(tr) : IsWrite(tr[i]) => tr[i].verb = "POST"
           ELSE posts = {}

\* a new challenge was created and its tags, hints, flags and files were
\* populated
C17_Witness ==
    /\ deploy.phase = "done"
    /\ \E t \in DOMAIN deploy.changes :
         /\ "CREATE_NEW" \in deploy.changes[t]
         /\ deploy.task[t] = "done"
         /\ \A k \in Kinds : \E i \in 1..Len(Full(t)) :
               Full(t)[i] = Ev("ok", "POST", k, IF k = "challenges" THEN t ELSE 1)

\* ---- the records of the discovery
Discovering == deploy.phase \in {"discover", "discover_failed", "confirm", "unchanged", "declined"}
Discovered == deploy.phase \in {"confirm", "unchanged", "declined", "apply", "done", "apply_failed"}
Known(kind, t) == t \in DOMAIN deploy.tgt[kind]

\* C18: get_challenge_info reads the tags, hints, flags and files of a
\* challenge only after get_challenge has returned a challenge; when it
\* returned None no list is read and the four lists are recorded as None.
\* Once the discovery is over every selected challenge has its five records,
\* and its base record is None exactly when each of its four lists is None.
C18_DiscoveryRecords ==
    /\ Discovering =>
         \A t \in Selected :
           LET tr == Full(t)
           IN /\ \A j \in 1..Len(tr) :
                   (IsRequest(tr[j]) /\ tr[j].kind # "challenges") =>
                      /\ tr[j].verb = "GET"
                      /\ \E i \in 1..(j - 1) : tr[i] = Marker("return", "challenges", t)
                      /\ Known("challenges", t)
                      /\ deploy.tgt.challenges[t] # None
              /\ (Known("challenges", t) /\ deploy.tgt.challenges[t] = None) =>
                      /\ \A j \in 1..Len(tr) : IsRequest(tr[j]) => tr[j].kind = "challenges"
                      /\ \A k \in ListKinds : Known(k, t) /\ deploy.tgt[k][t] = None
    /\ Discovered =>
         \A c \in Selected :
           /\ \A k \in Kinds : Known(k, c)
           /\ \A k \in ListKinds : (deploy.tgt.challenges[c] = None) <=> (deploy.tgt[k][c] = None)

\* the discovery is over for a challenge that does not exist and for one
\* that does
C18_Witness ==
    /\ Compared
    /\ \E c, e \in Selected :
         /\ deploy.tgt.challenges[c] = None
         /\ deploy.tgt.files[c] = None
         /\ Len(deploy.trace[c]) = 4
         /\ deploy.tgt.challenges[e] # None
         /\ deploy.tgt.files[e] # None

\* ---- the prompt
Wrote == \E t \in Tasks : \E i \in 1..Len(Full(t)) : IsWrite(Full(t)[i])

\* C19: when deploy has sent a write, the discovery had ended for every
\* selected challenge, the summary of the changes had been shown and the
\* prompt had been answered with yes; after the answer no, no write is sent.
C19_NoWriteBeforeYes ==
    /\ Wrote =>
         /\ deploy.answer = "yes"
         /\ deploy.shown
         /\ \A c \in Selected : \A k \in Kinds : Known(k, c)
    /\ (deploy.answer = "no") => (~Wrote /\ deploy.phase = "declined")

\* a write was sent after the answer yes
C19_Witness == Wrote /\ deploy.answer = "yes" /\ deploy.phase = "apply"

\* ---- the semaphores
Inside == {t \in Tasks : deploy.task[t] = "running"}
Limit == IF deploy.phase \in {"discover", "discover_failed"} THEN CONCURRENT_READS
         ELSE CONCURRENT_WRITES
\* the requests of a task that are on their way
Flying(t) ==
    InFlight(api[t]) \cup (IF api[t].pc = "get"
                           THEN {[verb |-> "GET", kind |-> api[t].kind, ref |-> api[t].id]}
                           ELSE {})

\* C13: at most CONCURRENT_READS challenges are inside get_challenge_info and
\* at most CONCURRENT_WRITES inside apply_changes_to_challenge; a challenge
\* inside holds exactly one permit, from before its first request until its
\* last call has returned, the time between two calls included.
C13_OnePermitEach ==
    (deploy.phase \in {"discover", "apply"}) =>
       /\ Cardinality(Inside) <= Limit
       /\ deploy.semaphore = Limit - Cardinality(Inside)
       /\ \A t \in Tasks :
            /\ deploy.task[t] \in {"new", "none"} => (Full(t) = <<>> /\ api[t] = Idle)
            /\ deploy.task[t] = "done" =>
                 /\ api[t] = Idle /\ log[t] = <<>>
                 /\ deploy.trace[t][Len(deploy.trace[t])].ev = "return"
            /\ (Full(t) # <<>> /\ deploy.task[t] # "done") => t \in Inside

\* three challenges are inside apply_changes_to_challenge, one of them
\* between two of its calls, and a fourth waits for a permit
C13_Witness ==
    /\ deploy.phase = "apply"
    /\ Cardinality(Inside) = CONCURRENT_WRITES
    /\ deploy.semaphore = 0
    /\ \E t \in Tasks : deploy.task[t] = "new"
    /\ \E t \in Inside : api[t].pc = "done" /\ api[t].kind = "tags"

\* C14 as stated: in the apply phase at most CONCURRENT_WRITES requests are
\* on their way at the same time, all challenges taken together.
C14_RequestsWithinLimit ==
    (deploy.phase = "apply") =>
       Cardinality(UNION {{<<t, q>> : q \in Flying(t)} : t \in Tasks}) <= CONCURRENT_WRITES

\* C14, amended: in the apply phase at most CONCURRENT_WRITES challenges have
\* requests on their way at the same time; a challenge has more than one only
\* while update_tags, update_hints or update_flags deletes the items of its
\* list, and then no more than the list held.
C14_ChallengesWithinLimit ==
    (deploy.phase = "apply") =>
       /\ Cardinality({t \in Tasks : Flying(t) # {}}) <= CONCURRENT_WRITES
       /\ \A t \in Tasks :
            Cardinality(Flying(t)) > 1 =>
               /\ api[t].pc = "deleting"
               /\ api[t].kind \in ListKinds
               /\ \A q \in Flying(t) : q.verb = "DELETE" /\ q.kind = api[t].kind
               /\ Cardinality(Flying(t)) <= Len(Items(api[t].kind, api[t].initial))

\* three challenges have requests on their way, one of them two deletes
C14_Witness ==
    /\ deploy.phase = "apply"
    /\ Cardinality({t \in Tasks : Flying(t) # {}}) = CONCURRENT_WRITES
    /\ \E t \in Tasks : Cardinality(Flying(t)) = 2

\* ---- validation
Quiet == \A t \in Tasks : Full(t) = <<>> /\ api[t] = Idle

\* C20: once validation has recorded an issue of severity ERROR or FATAL, for
\* a challenge or for the repository, the command sends no request: it is
\* still validating or it has exited.
C20_ErrorsStopDeploy ==
    (\E issue \in get_issues(deploy.validation.book) : issue.severity \in {ERROR, FATAL}) =>
       /\ deploy.phase \in {"validate", "exit"}
       /\ Quiet
       /\ remote = MkRemote([c \in FewIds |-> IF c = Caller THEN ManyProfiles[c] ELSE None])

\* the command has exited on an ERROR issue of a challenge whose checks went
\* on to their end; there was no FATAL issue
C20_Witness ==
    /\ deploy.phase = "exit"
    /\ deploy.validation.failed # {}
    /\ \E issue \in get_issues(deploy.validation.book) :
         issue.severity = ERROR /\ issue.challenge_id # OfRepo
    /\ \A issue \in get_issues(deploy.validation.book) : issue.severity # FATAL

\* ---- failures in the apply phase
Failed(t) == \E i \in 1..Len(Full(t)) : Full(t)[i].ev = "fail"

\* C21: a request of the apply sequence of a challenge that fails is the last
\* thing the sequence does: no call of a later step and no further request
\* follows it, the task does not end as done and the run does not end as
\* done.
C21_FailureEndsSequence ==
    Applying =>
      \A t \in Tasks :
        \A i \in 1..Len(Full(t)) :
          Full(t)[i].ev = "fail" =>
             /\ i = Len(Full(t))
             /\ deploy.task[t] \in {"running", "failed", "cancelled"}
             /\ deploy.task[t] = "running" => api[t].pc = "raised"
             /\ deploy.phase \in {"apply", "apply_failed"}

\* the update of the tags failed after the base challenge was written; the
\* hints, flags and files were not touched and the run has failed
C21_Witness ==
    /\ deploy.phase = "apply_failed"
    /\ \E t \in Tasks :
         /\ deploy.task[t] = "failed"
         /\ Full(t)[Len(Full(t))].ev = "fail"
         /\ Full(t)[Len(Full(t))].kind = "tags"
         /\ \E i \in 1..Len(Full(t)) : Full(t)[i].ev = "ok" /\ Full(t)[i].kind = "challenges"
                                       /\ IsWrite([Full(t)[i] EXCEPT !.ev = "issue"])

\* ---- the task group of deletions when one child fails
Sent(t, k) ==
    \E i \in 1..Len(log[t]) :
       log[t][i] = Ev("issue", "DELETE", api[t].kind, Items(api[t].kind, api[t].initial)[k].id)

\* C22: when one DELETE of the concurrent deletions of a replace-all fails,
\* no sibling whose DELETE was already sent is cancelled.
C22_StartedSiblingsFinish ==
    \A t \in Tasks :
      \A k \in DOMAIN api[t].kids : api[t].kids[k] = "cancelled" => ~Sent(t, k)

\* C23: a failed request in the apply sequence of one challenge ends that
\* sequence alone: no apply sequence of another challenge is cancelled, one
\* that had not started is still started, and each runs until it is done or
\* has failed itself.
C23_OthersRunOn ==
    Applying =>
      \A t \in DOMAIN deploy.changes :
         /\ deploy.task[t] # "cancelled"
         /\ deploy.phase = "apply_failed" => deploy.task[t] \in {"done", "failed"}

\* ---- a get and a write of the same kind and id
BothDone == api[Writer].pc = "done" /\ api[Reader].pc = "done"
RemoteState(kind, id) ==
    IF kind = "challenges" THEN remote.challenges[id] ELSE RemoteList(remote, kind, id)

\* C24: when a get_* call and an update_* call of the same kind for the same
\* id have both returned, in whatever order their steps were taken, the cache
\* has no entry for the id or its entry is what the remote side holds.
C24_CacheNotStale ==
    BothDone =>
      LET kind == api[Writer].kind
      IN Caller \in DOMAIN cache[kind] => cache[kind][Caller] = RemoteState(kind, Caller)

\* ---- a challenge that fails validation
ToLoad == DOMAIN deploy.challenges
IssuesOf(c) == SelectSeq(deploy.validation.book, LAMBDA issue : issue.challenge_id = c)
Grave(issue) == issue.severity >= ERROR

\* C25: a challenge whose loading recorded an ERROR or FATAL issue is left
\* out of the loaded challenges and its issue is in the book; a FATAL issue is
\* the last issue of its challenge; the loading goes on until every selected
\* challenge was either loaded or has failed, and a challenge without such an
\* issue is loaded.
C25_OnlyThatChallenge ==
    LET v == deploy.validation
    IN /\ v.loaded \cap v.failed = {}
       /\ \A c \in ToLoad :
            /\ c \in v.failed <=> (c < v.at /\ \E i \in 1..Len(IssuesOf(c)) : Grave(IssuesOf(c)[i]))
            /\ c \in v.loaded <=> (c < v.at /\ \A i \in 1..Len(IssuesOf(c)) : ~Grave(IssuesOf(c)[i]))
            /\ \A i \in 1..Len(IssuesOf(c)) :
                 IssuesOf(c)[i].severity = FATAL => (i = Len(IssuesOf(c)) /\ c \in v.failed)
       /\ v.at # OfRepo => (deploy.phase = "validate" \/ v.at > Cardinality(ToLoad))

\* the first challenge failed on a FATAL issue, the second was loaded after it
C25_Witness ==
    /\ deploy.validation.failed = {1}
    /\ deploy.validation.loaded = {2}
    /\ \E i \in 1..Len(deploy.validation.book) :
         deploy.validation.book[i] = Issue(FATAL, 1)

\* ---- FileWalker
Walked == walker # NoWalker /\ walker._results # None
Matches(i) == glob(walker.root, <<>>, walker.include_patterns[i])
Earlier(i) == UNION {Matches(j) : j \in 1..(i - 1)}

\* C26: every path walk_with_warnings returns is a file of the tree.
C26_OnlyFiles ==
    Walked => \A path \in walker._results.paths : is_file(walker.root, path)

\* the directory "a" was included; it holds a file two levels down and an
\* empty directory
C26_Witness ==
    /\ Walked
    /\ walker.include_patterns = << <<"a">> >>
    /\ <<"a", "b", "c">> \in walker._results.paths
    /\ is_dir(walker.root, <<"a", "d">>)

\* the class of the warning the i-th include pattern is to produce, or ""
WarningOf(i) ==
    IF Matches(i) = {} THEN "MatchlessPatternWarning"
    ELSE IF Matches(i) \subseteq Earlier(i) THEN "RedundantPatternWarning"
    ELSE ""

\* C27: the warnings of a walk are, in the order of the include patterns, one
\* MatchlessPatternWarning for each pattern that matches nothing, one
\* RedundantPatternWarning for each pattern whose matches are not empty and
\* were all matched by earlier patterns, and nothing else; on an empty tree
\* the one pattern "**/*" gives no result and one MatchlessPatternWarning.
C27_Warnings ==
    Walked =>
      LET n == Len(walker.include_patterns)
          warning == SelectSeq([i \in 1..n |-> i], LAMBDA i : WarningOf(i) # "")
      IN /\ walker._warnings =
              [k \in 1..Len(warning) |->
                 [class |-> WarningOf(warning[k]), type |-> "include",
                  pattern |-> walker.include_patterns[warning[k]]]]
         /\ (DOMAIN walker.root = {<<>>} /\ walker.include_patterns = << <<"**", "*">> >>) =>
               /\ walker._results.paths = {}
               /\ Len(walker._warnings) = 1
               /\ walker._warnings[1].class = "MatchlessPatternWarning"

\* "a/*" matched something and "a/b" after it nothing new: one warning, of
\* the second pattern
C27_Witness ==
    /\ Walked
    /\ walker.include_patterns = << <<"a", "*">>, <<"a", "b">> >>
    /\ walker._warnings = << RedundantPatternWarning("include", <<"a", "b">>) >>

Literal(pattern) == \A i \in 1..Len(pattern) : pattern[i] \notin {"*", "**"}
Includes == {walker.include_patterns[i] : i \in 1..Len(walker.include_patterns)}
Excludes == {walker.exclude_patterns[i] : i \in 1..Len(walker.exclude_patterns)}

\* C28: when every include pattern is the literal path of a directory or
\* file that exists and every exclude pattern is the path of a file, or of
\* nothing that exists, the result is the set of the files that are, or are
\* below, an included path, without the excluded files; no warning is about
\* an exclude pattern.
C28_IncludedMinusExcluded ==
    ( /\ Walked
      /\ \A pattern \in Includes : Literal(pattern) /\ pattern \in DOMAIN walker.root
      /\ \A pattern \in Excludes : ~is_dir(walker.root, pattern) ) =>
       /\ walker._results.paths =
            {path \in DOMAIN walker.root :
               /\ is_file(walker.root, path)
               /\ \E pattern \in Includes : path = pattern \/ IsBelow(path, pattern)}
            \ Excludes
       /\ \A i \in 1..Len(walker._warnings) : walker._warnings[i].type = "include"

\* "a" and "f" were included and "a/b/c" excluded: its sibling "a/b/e" and
\* "f" are the result, the empty directory "a/d" gives nothing
C28_Witness ==
    /\ Walked
    /\ walker.include_patterns = << <<"a">>, <<"f">> >>
    /\ walker.exclude_patterns = << <<"a", "b", "c">> >>
    /\ is_file(walker.root, <<"a", "b", "c">>)
    /\ is_dir(walker.root, <<"a", "d">>)
    /\ walker._results.paths = {<<"a", "b", "e">>, <<"f">>}
    /\ walker._warnings = <<>>

\* C29: no path of the result is, or is below, an exclude pattern that exists
\* as a path of the tree.
C29_ExcludeWins ==
    Walked =>
      \A path \in walker._results.paths :
        \A pattern \in Excludes :
           pattern \in DOMAIN walker.root => (path # pattern /\ ~IsBelow(path, pattern))

\* ---- the static files of a challenge
StaticLoaded == local_challenge # NoLocal /\ local_challenge._static_files # None

\* C30: when at most one static file is resolved, what load_static_files
\* returns holds no archive, whatever make_archive is: with no file it is
\* empty, with one file it is one entry under the name of the file, with the
\* bytes of the file and their hash.
C30_NoArchiveOfOneFile ==
    (StaticLoaded /\ Len(_get_all_static_files(local_challenge)) <= 1) =>
       LET items == local_challenge._static_files.items
           files == _get_all_static_files(local_challenge)
       IN /\ \A filename \in DOMAIN items : items[filename].data \in FileBytes
          /\ Len(files) = 0 => DOMAIN items = {}
          /\ Len(files) = 1 =>
               /\ DOMAIN items = {Path_name(files[1])}
               /\ items[Path_name(files[1])] =
                    StaticFileEntry(sha256(local_challenge.data[files[1]]), local_challenge.data[files[1]])

\* one file was resolved and the config asks for an archive
C30_Witness ==
    /\ StaticLoaded
    /\ local_challenge.make_archive
    /\ _get_all_static_files(local_challenge) = << <<"static", "a.txt">> >>
    /\ DOMAIN local_challenge._static_files.items = {"a.txt"}

\* C31: a call of load_static_files for a challenge whose config disables
\* the archive and that has more than 25 static files raises AssertionError,
\* has read no file and leaves _static_files unset; every other call raises
\* nothing and leaves _static_files set.
C31_Ceiling ==
    [][call_load_static_files =>
         IF ~local_challenge.make_archive /\ Len(_get_all_static_files(local_challenge)) > 25
         THEN /\ local_challenge'.error = "AssertionError"
              /\ local_challenge'._static_files = None
              /\ local_challenge'.read = {}
         ELSE /\ local_challenge'.error = ""
              /\ local_challenge'._static_files # None]_vars

\* 26 files and no archive: the call has failed
C31_Witness ==
    /\ local_challenge # NoLocal
    /\ local_challenge.error = "AssertionError"
    /\ Len(_get_all_static_files(local_challenge)) = 26
    /\ local_challenge.read = {}
    /\ local_challenge._static_files = None

\* C32: the archive of a challenge is the same whatever os.stat tells of its
\* files: with the same paths and contents but another modification time,
\* other permissions or another owner and group, archive_buf holds the same
\* members in the same order, and so has the same hash.
C32_SameArchive ==
    (StaticLoaded /\ archive_wanted(_get_all_static_files(local_challenge),
                                    local_challenge.make_archive)) =>
       \A stat \in Stats :
          archive_buf([local_challenge EXCEPT !.stat = stat]) = archive_buf(local_challenge)



\* ---- the names of the members of the archive
\* the components a prefix names: "src" and "src/" both name <<"src">>
ComponentsOf(prefix) == SelectSeq(prefix, LAMBDA piece : piece # "/")

\* the names a path may get by stripping one candidate prefix that is a
\* whole leading component of it, and its own name
Stripped(src, filepath) ==
    {fspath(filepath)} \cup
    {fspath(SubSeq(filepath, Len(ComponentsOf(prefix)) + 1, Len(filepath))) :
       prefix \in {prefix \in {src.rm_prefixes[k] : k \in 1..Len(src.rm_prefixes)}
                                \cup {<<"static", "/">>} :
                     /\ Len(ComponentsOf(prefix)) < Len(filepath)
                     /\ SubSeq(filepath, 1, Len(ComponentsOf(prefix))) = ComponentsOf(prefix)}}

\* the archive that was made of the static files
Archived ==
    /\ StaticLoaded
    /\ archive_wanted(_get_all_static_files(local_challenge), local_challenge.make_archive)

\* C34: the name of every member of the archive is the shortest of the names
\* got by stripping one candidate prefix (an rm_prefix or "static/") that is
\* a whole leading component of the path; a path that starts with none of
\* them, like static_notes.txt, keeps its name.
C34_ShortestStripped ==
    Archived =>
      LET src == local_challenge
          files == _get_all_static_files(src)
          tar == src._static_files.items[archive_name(src.challenge_id)].data.tar
      IN \A i \in 1..Len(files) :
            /\ tar[i].name \in Stripped(src, files[i])
            /\ \A name \in Stripped(src, files[i]) : len(tar[i].name) <= len(name)


\* ---- the diff and the apply
\* the changes that stand for a difference in what a request of a kind writes
ChangesFor(kind) ==
    CASE kind = "challenges" -> {"NAME", "DESCRIPTION", "CATEGORY", "POINTS"}
      [] kind = "tags" -> {"TAGS"}
      [] kind = "hints" -> {"HINTS"}
      [] kind = "flags" -> {"FLAGS"}
      [] kind = "files" -> {"FILES"}

\* C35: in the apply sequence of a challenge that exists remotely, a request
\* that updates the base challenge is sent only if NAME, DESCRIPTION,
\* CATEGORY or POINTS is among its changes, and a write of a tag (hint, flag,
\* file) only if TAGS (HINTS, FLAGS, FILES) is: what the diff found equal is
\* not written.
C35_DiffAndApplyAgree ==
    Applying =>
      \A t \in DOMAIN deploy.changes :
         "CREATE_NEW" \notin deploy.changes[t] =>
            \A i \in 1..Len(Full(t)) :
               IsWrite(Full(t)[i]) => ChangesFor(Full(t)[i].kind) \cap deploy.changes[t] # {}


\* C36: when update_files has returned without an error (and was no dry
\* run), the (filename, content hash) pairs of the remote files of the
\* challenge are those of the target, whatever the remote files were before,
\* several files of one pair included.
C36_FilesAreTarget ==
    (api[Caller].fn = "update_files" /\ api[Caller].pc = "done" /\ ~api[Caller].dry) =>
       PairsOf(remote.files[api[Caller].id]) = PairsOf(api[Caller].target.files)


\* ---- the challenges that are not in the map of changes
\* what the instance holds for one challenge id
EntityOf(r, t) ==
    [challenge |-> IF exists(r, t) THEN r.challenges[t] ELSE None,
     tags |-> r.tags[t], hints |-> r.hints[t], flags |-> r.flags[t], files |-> r.files[t]]

C37_Step ==
    /\ deploy.phase # "unchanged"
    /\ deploy'.phase = "confirm" => DOMAIN deploy'.changes # {}
    /\ deploy'.phase = "unchanged" =>
         /\ DOMAIN deploy'.changes = {}
         /\ deploy'.answer = "unasked"
         /\ \A t \in Tasks : \A i \in 1..Len(Full(t)') : ~IsWrite(Full(t)'[i])
    /\ (Applying /\ Applying') =>
         \A t \in Tasks \ DOMAIN deploy.changes :
            /\ EntityOf(remote', t) = EntityOf(remote, t)
            /\ api'[t] = Idle
            /\ Writes(log'[t]) = {}

\* C37: in the apply phase no step writes to a challenge that is not in the
\* map of changes, and no request is sent for it, whatever becomes of the
\* other challenges; when the map is empty the command ends there: it has
\* not asked for confirmation, has sent no write, and takes no further step.
C37_OmittedIsUntouched == [][C37_Step]_vars

\* the apply has ended: a challenge that was left out of the map is as the
\* discovery found it, while another one was patched
C37_Witness ==
    /\ deploy.phase = "done"
    /\ \E t \in Selected \ DOMAIN deploy.changes :
         /\ exists(remote, t)
         /\ remote.challenges[t] = deploy.tgt.challenges[t]
         /\ deploy.trace[t] = <<>>
    /\ \E u \in DOMAIN deploy.changes : Patched(u)


\* ---- permits and the end of the phases
\* the task has entered `async with semaphore`
Acquired(t) == deploy.task[t] \in {"running", "done", "failed"}
\* the sequence of the task has ended, by itself
EndedItself(t) == deploy.task[t] \in {"done", "failed"}
\* a phase has ended by itself or with an exception
PhaseOver == deploy.phase \in {"confirm", "unchanged", "discover_failed", "done", "apply_failed"}
CeilingOf(phase) ==
    IF phase \in {"confirm", "unchanged", "discover_failed"} THEN CONCURRENT_READS
    ELSE CONCURRENT_WRITES

\* C38: when every request is answered and every task is scheduled, every
\* challenge of the discovery and every challenge of the map of changes gets
\* a permit and its sequence ends; when a phase is over, by success or by a
\* failure, all the permits are free again.
C38_AllAcquireAndEnd ==
    /\ \A t \in LiveIds : (deploy.task[t] = "new") ~> Acquired(t)
    /\ \A t \in LiveIds : (deploy.task[t] = "new") ~> EndedItself(t)
    /\ [](PhaseOver => deploy.semaphore = CeilingOf(deploy.phase))


\* C39: the list of static files that load_static_files has resolved holds
\* no file twice, and a challenge whose only file is both matched by a
\* pattern and below static/ gets that file under its own name, not an
\* archive.
C39_EachFileOnce ==
    StaticLoaded =>
      LET src == local_challenge
          files == _get_all_static_files(src)
      IN /\ \A i, j \in 1..Len(files) : files[i] = files[j] => i = j
         /\ \A path \in src.pattern_paths \cap src.static_paths :
               src.pattern_paths \cup src.static_paths = {path} =>
                  DOMAIN src._static_files.items = {Path_name(path)}

\* ---- what the update methods answer
\* an update_* call of the caller that has returned
Updated(t) == api[t].fn \in {"update_challenge", "update_list", "update_files"} /\ api[t].pc = "done"

\* the target of the call is not what the instance held when the call was made
TargetDiffers(t) ==
    LET id == api[t].id
        kind == api[t].kind
        pre == client.pre
    IN CASE api[t].fn = "update_challenge" ->
              \/ ~exists(pre, id)
              \/ [api[t].target EXCEPT !.state = pre.challenges[id].state] # pre.challenges[id]
         [] api[t].fn = "update_list" ->
              \/ as_str_list(kind, api[t].target) # as_str_list(kind, RemoteList(pre, kind, id))
              \/ kind = "flags" /\ \E i \in 1..Len(api[t].target.flags) :
                    i <= Len(pre.flags[id]) /\ api[t].target.flags[i].type # pre.flags[id][i].type
         [] api[t].fn = "update_files" ->
              PairsOf(api[t].target.files) # PairsOf(pre.files[id])

C33_Step ==
    LET t == Caller
    IN /\ Updated(t)' =>
            /\ (api'[t].ret = TRUE) <=> TargetDiffers(t)'
            /\ (api'[t].dry \/ ~TargetDiffers(t)') => Writes(log'[t]) = {}
       /\ (api'[t].fn \in {"update_challenge", "update_list", "update_files"}
             /\ (api'[t].dry \/ ~TargetDiffers(t)')) =>
            \A k \in Kinds : \A id \in DOMAIN cache[k] :
               id \in DOMAIN cache'[k] /\ cache'[k][id] = cache[k][id]

\* C33: update_challenge, update_tags, update_hints, update_flags and
\* update_files return True exactly when the target differs from what the
\* instance holds; a dry run, or a call that finds no difference, sends no
\* write and changes no entry of the cache.
C33_TrueIffDiffers == [][C33_Step]_vars

====
